---- MODULE Spec2Model ----
(***************************************************************************)
(* The gRPC-over-HTTP/2 channel of QtGrpc (qgrpchttp2channel.cpp) together *)
(* with the user-facing QGrpcOperation (qgrpcoperation.cpp).               *)
(*                                                                         *)
(* Everything runs on one event loop, so one action is one event handler   *)
(* run to completion: a socket event, a stream event, a timer, or a call   *)
(* made by the user.  The handlers are written as operators over a record  *)
(* `w` that holds every variable (the "world"), because they call each     *)
(* other and emit signals whose slots run inside the emitting handler.     *)
(***************************************************************************)
EXTENDS Integers, Sequences, FiniteSets, TLC

\* ------------------------------------------------------------------ bounds
MaxOps    == 2      \* RPCs the user may issue
MaxQueue  == 1      \* frames a handler may hold in m_queue
CountCap  == 2      \* history counters saturate here
MaxWire   == 3      \* messages the peer sends in the reassembly specification
MaxPayload == 258   \* bytes of the longest message of the framing specification
MaxMetadata == 2    \* entries of the metadata of the channel options and of the call options

Ops == 1..MaxOps

\* --------------------------------------------------------------- constants
GrpcMessageSizeHeaderSize == 5

DefaultContentType == "application/grpc"

\* Channel options as QGrpcChannelOptions() makes them.
DefaultOptions == [metadata |-> <<>>, serializationFormat |-> ""]

\* The payload of every request message and of every response message of
\* the lifecycle specification.
Argument    == <<7>>
PeerPayload == <<9>>

VARIABLES
    m_state,                        \* QGrpcHttp2ChannelPrivate::m_state
    m_connection,                   \* TRUE iff m_connection != nullptr
    m_activeHandlers,               \* list of handler ids
    m_pendingHandlers,              \* list of handler ids
    m_isInsideSocketErrorOccurred,
    socket,                         \* the transport: Connecting, Connected, Unconnected, Closed
    errorObservers,                 \* operations connected by connectErrorHandler, in order
    reconnectTimer,                 \* a deferred m_reconnectFunction() is posted
    channelDeadline,                \* channelOptions().deadlineTimeout() is set
    channelOptions,                 \* channelOptions(): metadata() as the key-value pairs in
                                    \* the order the hash hands them out, and the suffix()
                                    \* of serializationFormat()
    m_contentType,                  \* "" until the constructor has run
    handler,                        \* Http2Handler objects (and their QHttp2Stream), by id
    operation,                      \* QGrpcOperation + QGrpcOperationContext, by id
    hist,                           \* per RPC, while its operation or its handler exists:
                                    \* what was emitted and sent so far
    signals,                        \* the latest event, then what its handler emitted and
                                    \* sent, in order
    crashed,                        \* the process ran into undefined behaviour and aborted
    wire, wirePos, received,        \* reassembly specification: the payloads the peer sends,
                                    \* how many bytes of them arrived, the payloads that
                                    \* messageReceived carried so far
    sent                            \* framing specification: the bytes of the DATA frame
                                    \* that carries the user's message to the echoing peer

vars == << m_state, m_connection, m_activeHandlers, m_pendingHandlers,
           m_isInsideSocketErrorOccurred, socket, errorObservers, reconnectTimer,
           channelDeadline, channelOptions, m_contentType,
           handler, operation, hist, signals, crashed,
           wire, wirePos, received, sent >>

World ==
    [ m_state |-> m_state, m_connection |-> m_connection,
      m_activeHandlers |-> m_activeHandlers, m_pendingHandlers |-> m_pendingHandlers,
      m_isInsideSocketErrorOccurred |-> m_isInsideSocketErrorOccurred,
      socket |-> socket, errorObservers |-> errorObservers,
      reconnectTimer |-> reconnectTimer, channelDeadline |-> channelDeadline,
      channelOptions |-> channelOptions, m_contentType |-> m_contentType,
      handler |-> handler, operation |-> operation, hist |-> hist,
      signals |-> <<>>, crashed |-> crashed ]

\* The world as an event handler finds it: the log holds the event alone.
On(event, o, data, flag) ==
    [World EXCEPT !.signals = << [op |-> o, sig |-> event, data |-> data, status |-> flag, headers |-> <<>>] >>]

Commit(t) ==
    /\ m_state' = t.m_state
    /\ m_connection' = t.m_connection
    /\ m_activeHandlers' = t.m_activeHandlers
    /\ m_pendingHandlers' = t.m_pendingHandlers
    /\ m_isInsideSocketErrorOccurred' = t.m_isInsideSocketErrorOccurred
    /\ socket' = t.socket
    /\ errorObservers' = t.errorObservers
    /\ reconnectTimer' = t.reconnectTimer
    /\ channelDeadline' = t.channelDeadline
    /\ channelOptions' = t.channelOptions
    /\ m_contentType' = t.m_contentType
    /\ handler' = t.handler
    /\ operation' = t.operation
    /\ hist' = [o \in Ops |-> IF t.operation[o].alive \/ t.handler[o].life \in {"alive", "deleteLater"}
                               THEN t.hist[o]
                               ELSE [ctxFinished |-> 0, userFinished |-> 0, rst |-> 0]]
    /\ signals' = t.signals
    /\ crashed' = t.crashed

\* ----------------------------------------------------------------- helpers
Range(s) == { s[i] : i \in 1..Len(s) }

RECURSIVE Without(_, _)
Without(s, x) ==
    IF s = <<>> THEN <<>>
    ELSE IF Head(s) = x THEN Without(Tail(s), x)
    ELSE <<Head(s)>> \o Without(Tail(s), x)

\* QList::erase(std::find(...)): the first occurrence only.
RECURSIVE EraseFirst(_, _)
EraseFirst(s, x) ==
    IF s = <<>> THEN <<>>
    ELSE IF Head(s) = x THEN Tail(s)
    ELSE <<Head(s)>> \o EraseFirst(Tail(s), x)

Inc(n) == IF n < CountCap THEN n + 1 ELSE n

\* An entry of the log; `headers` is filled for a header frame only.
Sig(o, s, d, st) == [op |-> o, sig |-> s, data |-> d, status |-> st, headers |-> <<>>]

Emit(w, s) == [w EXCEPT !.signals = Append(@, s)]

Live == {"alive", "deleteLater"}

EndFlag(endStream) == IF endStream THEN "END_STREAM" ELSE ""

\* --------------------------------------------------------- message framing
qToBigEndian(n) ==
    << (n \div 16777216) % 256, (n \div 65536) % 256, (n \div 256) % 256, n % 256 >>

\* qFromBigEndian<quint32>(container.data() + 1)
qFromBigEndian(c) == c[2] * 16777216 + c[3] * 65536 + c[4] * 256 + c[5]

\* A faulty variant: the length goes out in little-endian order.
frame_LittleEndian(data) ==
    <<0>> \o << Len(data) % 256, (Len(data) \div 256) % 256,
                (Len(data) \div 65536) % 256, (Len(data) \div 16777216) % 256 >> \o data

\* The framing of writeMessage: a zero byte, the length as quint32, the payload.
\* (The cast to quint32 changes no length below 2^32.)
frame(data) == <<0>> \o qToBigEndian(Len(data)) \o data

ExpectedData0 == [expectedSize |-> 0, container |-> <<>>]

\* A faulty variant: the expected size leaves out the length prefix.
updateExpectedSize_PayloadOnly(ed) ==
    IF ed.expectedSize = 0
    THEN IF Len(ed.container) < GrpcMessageSizeHeaderSize
         THEN [ed |-> ed, ok |-> FALSE]
         ELSE [ed |-> [ed EXCEPT !.expectedSize = qFromBigEndian(ed.container)],
               ok |-> TRUE]
    ELSE [ed |-> ed, ok |-> TRUE]

\* ExpectedData::updateExpectedSize: the updated struct and the return value.
updateExpectedSize(ed) ==
    IF ed.expectedSize = 0
    THEN IF Len(ed.container) < GrpcMessageSizeHeaderSize
         THEN [ed |-> ed, ok |-> FALSE]
         ELSE [ed |-> [ed EXCEPT !.expectedSize =
                            qFromBigEndian(ed.container) + GrpcMessageSizeHeaderSize],
               ok |-> TRUE]
    ELSE [ed |-> ed, ok |-> TRUE]

\* A faulty variant: an `if` in the place of the `while`.
reassemble_Once(ed, out) ==
    IF Len(ed.container) >= ed.expectedSize
    THEN LET msg  == SubSeq(ed.container, GrpcMessageSizeHeaderSize + 1, ed.expectedSize)
             rest == SubSeq(ed.container, ed.expectedSize + 1, Len(ed.container))
             u    == updateExpectedSize([expectedSize |-> 0, container |-> rest])
         IN  [ed |-> u.ed, out |-> Append(out, msg), returned |-> ~u.ok]
    ELSE [ed |-> ed, out |-> out, returned |-> FALSE]

\* The while loop of the dataReceived callback.  `out` collects the payloads
\* given to messageReceived; `returned` tells that the callback returned
\* from inside the loop.
RECURSIVE reassemble(_, _)
reassemble(ed, out) ==
    IF Len(ed.container) >= ed.expectedSize
    THEN LET msg  == SubSeq(ed.container, GrpcMessageSizeHeaderSize + 1, ed.expectedSize)
             rest == SubSeq(ed.container, ed.expectedSize + 1, Len(ed.container))
             u    == updateExpectedSize([expectedSize |-> 0, container |-> rest])
         IN  IF ~u.ok
             THEN [ed |-> u.ed, out |-> Append(out, msg), returned |-> TRUE]
             ELSE reassemble(u.ed, Append(out, msg))
    ELSE [ed |-> ed, out |-> out, returned |-> FALSE]

\* The part of the dataReceived callback that touches m_expectedData:
\* append, updateExpectedSize, loop.  `atEnd` tells that control reached
\* the `if (endStream)` statement after the loop.
receiveData(ed, data) ==
    LET a == [ed EXCEPT !.container = @ \o data]
        u == updateExpectedSize(a)
    IN  IF ~u.ok
        THEN [ed |-> u.ed, out |-> <<>>, atEnd |-> FALSE]
        ELSE LET r == reassemble(u.ed, <<>>)
             IN  [ed |-> r.ed, out |-> r.out, atEnd |-> ~r.returned]

\* ------------------------------------------------------------------ records
NoHandler ==
    [ life |-> "none",                  \* none, alive, deleteLater, deleted
      m_handlerState |-> "Active",
      m_stream |-> "null",              \* "null" or the state of the attached QHttp2Stream
      uploading |-> FALSE,              \* QHttp2Stream::isUploadingDATA()
      uploadEnd |-> FALSE,              \* the DATA being uploaded carries END_STREAM
      headersSent |-> FALSE,            \* the initial HEADERS went out on the stream
      peerDone |-> FALSE,               \* the peer ended or reset the stream
      m_queue |-> <<>>,
      m_initialHeaders |-> <<>>,
      m_expectedData |-> ExpectedData0,
      m_endStreamAtFirstData |-> FALSE,
      m_deadlineTimer |-> FALSE,        \* the timer is running
      interval |-> "none",              \* m_deadlineTimer.interval(): the deadline the timer
                                        \* was started with ("call" or "channel")
      errorConnection |-> FALSE,        \* the errorOccurred connection of attachStream
      streamErrors |-> 0,               \* errors the stream has reported so far
      endSent |-> FALSE ]               \* a DATA frame with END_STREAM was handed to the stream

NoOperation ==
    [ issued |-> FALSE,                 \* processOperation was called for it
      alive |-> FALSE,                  \* the user holds the operation (context not expired)
      isFinished |-> FALSE,             \* QGrpcOperationPrivate::isFinished
      asyncError |-> FALSE,             \* an operationContextAsyncError timer is posted
      callDeadline |-> FALSE,           \* callOptions().deadlineTimeout() is set
      callMetadata |-> <<>>,            \* callOptions().metadata()
      serverMetadata |-> {} ]           \* serverMetadata(): name-value pairs, one per name

NoHist == [ctxFinished |-> 0, userFinished |-> 0, rst |-> 0]

expired(w, h) == ~w.operation[h].alive

\* ------------------------------------------------- QGrpcOperationContext
\* emit operationContext->finished(status), with the slots connected to it:
\* the lambda of the QGrpcOperation constructor and QTimer::stop of the
\* handler's deadline timer.
\* `message` is the text of the status where the peer sent one, as bytes
\* (<<>> for every other status).
UserFinishedWith(w, o, status, message) ==
    [w EXCEPT !.operation[o].isFinished = TRUE,
              !.signals = Append(@, Sig(o, "QGrpcOperation::finished", message, status)),
              !.hist[o].userFinished = Inc(@)]

UserFinished(w, o, status) == UserFinishedWith(w, o, status, <<>>)

\* A faulty variant: the slot of the QGrpcOperation does not look at isFinished.
emitFinished_Unguarded(w, o, status) ==
    LET w1 == [w EXCEPT !.signals = Append(@, Sig(o, "finished", <<>>, status)),
                        !.hist[o].ctxFinished = Inc(@)]
        w2 == UserFinished(w1, o, status)
    IN  IF w2.handler[o].life \in Live
        THEN [w2 EXCEPT !.handler[o].m_deadlineTimer = FALSE]
        ELSE w2

emitFinishedWith(w, o, status, message) ==
    LET w1 == [w EXCEPT !.signals = Append(@, Sig(o, "finished", message, status)),
                        !.hist[o].ctxFinished = Inc(@)]
        w2 == IF ~w1.operation[o].isFinished
              THEN UserFinishedWith(w1, o, status, message) ELSE w1
    IN  IF w2.handler[o].life \in Live
        THEN [w2 EXCEPT !.handler[o].m_deadlineTimer = FALSE]
        ELSE w2

emitFinished(w, o, status) == emitFinishedWith(w, o, status, <<>>)

RECURSIVE emitMessages(_, _, _)
emitMessages(w, o, out) ==
    IF out = <<>> THEN w
    ELSE emitMessages(Emit(w, Sig(o, "messageReceived", Head(out), "")), o, Tail(out))

\* A faulty variant: the error is reported from within the failing call.
operationContextAsyncError_AtOnce(w, o) == emitFinished(w, o, "Unavailable")

\* QTimer::singleShot(0, operationContext, ...): posted, runs in a later turn.
operationContextAsyncError(w, o) == [w EXCEPT !.operation[o].asyncError = TRUE]

\* -------------------------------------------------------------- QHttp2Stream
\* The stream after END_STREAM was sent / was received on it.
AfterSendEnd(st) ==
    CASE st = "Open" -> "HalfClosedLocal"
      [] st = "HalfClosedRemote" -> "Closed"
      [] OTHER -> st

AfterRecvEnd(st) ==
    CASE st = "Open" -> "HalfClosedRemote"
      [] st = "HalfClosedLocal" -> "Closed"
      [] OTHER -> st

\* QHttp2Stream::sendRST_STREAM: refused on an idle or closed stream.
sendRST_STREAM(w, h) ==
    IF w.handler[h].m_stream \in {"Idle", "Closed"}
    THEN [w |-> w, ret |-> FALSE]
    ELSE [w |-> [w EXCEPT !.handler[h].m_stream = "Closed",
                          !.handler[h].uploading = FALSE,
                          !.signals = Append(@, Sig(h, "RST_STREAM", <<>>, "CANCEL")),
                          !.hist[h].rst = Inc(@)],
          ret |-> TRUE]

\* QHttp2Stream::sendDATA(device, endStream): the upload starts.
sendDATA(w, h, bytes, endStream) ==
    [w EXCEPT !.handler[h].uploading = TRUE,
              !.handler[h].uploadEnd = endStream,
              !.handler[h].endSent = @ \/ endStream,
              !.signals = Append(@, Sig(h, IF endStream THEN "DATA+END_STREAM" ELSE "DATA",
                                        bytes, ""))]

\* --------------------------------------------------------------- Http2Handler
isStreamClosedForSending(w, h) ==
    /\ w.handler[h].m_stream # "null"
    /\ w.handler[h].m_stream \in {"HalfClosedLocal", "Closed"}

\* A faulty variant: the newest frame of the queue goes out first.
processQueue_Newest(w, h) ==
    IF w.handler[h].m_stream = "null" THEN w
    ELSE IF w.handler[h].uploading THEN w
    ELSE IF w.handler[h].m_queue = <<>> THEN w
    ELSE LET q == w.handler[h].m_queue
             bytes == q[Len(q)]
             w1 == [w EXCEPT !.handler[h].m_queue = SubSeq(q, 1, Len(q) - 1)]
         IN  sendDATA(w1, h, bytes, bytes = <<>> \/ w.handler[h].m_endStreamAtFirstData)

processQueue(w, h) ==
    IF w.handler[h].m_stream = "null" THEN w
    ELSE IF w.handler[h].uploading THEN w
    ELSE IF w.handler[h].m_queue = <<>> THEN w
    ELSE LET bytes == Head(w.handler[h].m_queue)
             w1 == [w EXCEPT !.handler[h].m_queue = Tail(@)]
         IN  sendDATA(w1, h, bytes, bytes = <<>> \/ w.handler[h].m_endStreamAtFirstData)

writeMessage(w, h, data) ==
    IF w.handler[h].m_handlerState # "Active" \/ isStreamClosedForSending(w, h)
    THEN w
    ELSE processQueue([w EXCEPT !.handler[h].m_queue = Append(@, frame(data))], h)

\* A faulty variant: cancel() looks at the stream only, not at m_handlerState.
cancel_WhateverState(w, h) ==
    IF w.handler[h].m_stream = "null"
    THEN [w |-> w, ret |-> FALSE]
    ELSE sendRST_STREAM([w EXCEPT !.handler[h].m_handlerState = "Cancelled",
                                  !.handler[h].m_deadlineTimer = FALSE], h)

cancel(w, h) ==
    IF w.handler[h].m_handlerState # "Active" \/ w.handler[h].m_stream = "null"
    THEN [w |-> w, ret |-> FALSE]
    ELSE sendRST_STREAM([w EXCEPT !.handler[h].m_handlerState = "Cancelled",
                                  !.handler[h].m_deadlineTimer = FALSE], h)

\* A faulty variant: writesDone() goes on unless the handler is Finished.
writesDone_UnlessFinished(w, h) ==
    IF w.handler[h].m_handlerState = "Finished" THEN w
    ELSE LET w1 == [w EXCEPT !.handler[h].m_handlerState = "Finished"]
         IN  IF isStreamClosedForSending(w1, h) THEN w1
             ELSE processQueue([w1 EXCEPT !.handler[h].m_queue = Append(@, <<>>)], h)

\* A faulty variant: writesDone() does not look at the send side of the stream.
writesDone_WhateverStream(w, h) ==
    IF w.handler[h].m_handlerState # "Active" THEN w
    ELSE processQueue([w EXCEPT !.handler[h].m_handlerState = "Finished",
                                !.handler[h].m_queue = Append(@, <<>>)], h)

writesDone(w, h) ==
    IF w.handler[h].m_handlerState # "Active" THEN w
    ELSE LET w1 == [w EXCEPT !.handler[h].m_handlerState = "Finished"]
         IN  IF isStreamClosedForSending(w1, h) THEN w1
             ELSE processQueue([w1 EXCEPT !.handler[h].m_queue = Append(@, <<>>)], h)

deadlineTimeout(w, h) ==
    IF expired(w, h) THEN w
    ELSE LET c == cancel(w, h)
         IN  IF c.ret THEN emitFinished(c.w, h, "DeadlineExceeded") ELSE c.w

\* QByteArray::toLower on the header names of this model.
toLower(key) ==
    CASE key = "X" -> "x"
      [] key = "Content-Type" -> "content-type"
      [] key = ":Path" -> ":path"
      [] OTHER -> key

\* A faulty variant: the key is compared as the user wrote it.
RECURSIVE iterateMetadata_CaseSensitive(_, _)
iterateMetadata_CaseSensitive(headers, metadata) ==
    IF metadata = <<>> THEN headers
    ELSE LET key == Head(metadata).key
         IN  iterateMetadata_CaseSensitive(
                 IF key \in {":authority", ":method", ":path", ":scheme", "content-type"}
                 THEN headers
                 ELSE Append(headers, [name |-> toLower(key), value |-> Head(metadata).value]),
                 Tail(metadata))

\* The lambda iterateMetadata of prepareInitialRequest.
RECURSIVE iterateMetadata(_, _)
iterateMetadata(headers, metadata) ==
    IF metadata = <<>> THEN headers
    ELSE LET lowerKey == toLower(Head(metadata).key)
         IN  iterateMetadata(
                 IF lowerKey \in {":authority", ":method", ":path", ":scheme", "content-type"}
                 THEN headers
                 ELSE Append(headers, [name |-> lowerKey, value |-> Head(metadata).value]),
                 Tail(metadata))

\* Http2Handler::prepareInitialRequest: the value of m_initialHeaders.
prepareInitialRequest(w, h) ==
    iterateMetadata(
        iterateMetadata(
            << [name |-> ":authority", value |-> "authority"],
               [name |-> ":method", value |-> "POST"],
               [name |-> ":path", value |-> "/service/method"],
               [name |-> ":scheme", value |-> "http"],
               [name |-> "content-type", value |-> w.m_contentType],
               [name |-> "service-name", value |-> "service"],
               [name |-> "grpc-accept-encoding", value |-> "identity,deflate,gzip"],
               [name |-> "accept-encoding", value |-> "identity,gzip"],
               [name |-> "te", value |-> "trailers"] >>,
            w.channelOptions.metadata),
        w.operation[h].callMetadata)

\* Http2Handler::Http2Handler with prepareInitialRequest: the headers are
\* built and the argument is queued as the first message.
newHandler(w, h, endStream) ==
    LET w1 == [w EXCEPT !.handler[h] =
                   [NoHandler EXCEPT !.life = "alive",
                                     !.m_endStreamAtFirstData = endStream,
                                     !.m_initialHeaders = prepareInitialRequest(w, h)]]
    IN  writeMessage(w1, h, Argument)

\* Http2Handler::~Http2Handler (the stream goes with it) and the end of
\* every connection the handler took part in.
destroyHandler(w, h) == [w EXCEPT !.handler[h] = [NoHandler EXCEPT !.life = "deleted"]]

\* Http2Handler::attachStream without its three callbacks, which are the
\* stream events below.
\* A faulty variant: the deadline of the channel goes before that of the call.
attachStream_ChannelFirst(w, h) ==
    LET deadline == IF w.channelDeadline THEN "channel"
                    ELSE IF w.operation[h].callDeadline THEN "call"
                    ELSE "none"
    IN  [w EXCEPT !.handler[h].m_stream = "Idle",
                  !.handler[h].errorConnection = TRUE,
                  !.handler[h].m_deadlineTimer = (deadline # "none"),
                  !.handler[h].interval = deadline]

attachStream(w, h) ==
    LET deadline == IF w.operation[h].callDeadline THEN "call"
                    ELSE IF w.channelDeadline THEN "channel"
                    ELSE "none"
    IN  [w EXCEPT !.handler[h].m_stream = "Idle",
                  !.handler[h].errorConnection = TRUE,
                  !.handler[h].m_deadlineTimer = (deadline # "none"),
                  !.handler[h].interval = deadline]

\* Http2Handler::sendInitialRequest.  sendHEADERS returns false either before
\* it opens the stream ("noHeaders") or after ("badHeaders").
handlerSendInitialRequest(w, h, outcome) ==
    LET w1 == IF outcome = "noHeaders" THEN w ELSE [w EXCEPT !.handler[h].m_stream = "Open"]
    IN  IF outcome \in {"noHeaders", "badHeaders"}
        THEN operationContextAsyncError(w1, h)
        ELSE processQueue([w1 EXCEPT !.handler[h].headersSent = TRUE,
                                     !.handler[h].m_initialHeaders = <<>>,
                                     !.signals = Append(@, Sig(h, "HEADERS",
                                                               w.handler[h].m_initialHeaders,
                                                               ""))], h)

\* ------------------------------------------------- QGrpcHttp2ChannelPrivate
\* QGrpcSerializationFormat(format).suffix()
suffix(format) ==
    CASE format = "Json" -> "json"
      [] format = "Protobuf" -> "proto"
      [] OTHER -> ""

\* QHash::constFind: whether the key is there, and its value.
RECURSIVE constFind(_, _)
constFind(metadata, key) ==
    IF metadata = <<>> THEN [found |-> FALSE, value |-> ""]
    ELSE IF Head(metadata).key = key THEN [found |-> TRUE, value |-> Head(metadata).value]
    ELSE constFind(Tail(metadata), key)

CannotChoose == "Cannot choose the serializer for content-type"
FormatConflict == "Manually specified serialization format doesn't match the content-type"

\* A faulty variant: a content-type among the metadata goes before the
\* serialization format of the options.
QGrpcHttp2ChannelPrivate_MetadataFirst(w) ==
    LET it == constFind(w.channelOptions.metadata, "content-type")
        formatSuffix == w.channelOptions.serializationFormat
    IN  [w EXCEPT !.m_contentType =
                      IF it.found THEN it.value
                      ELSE IF formatSuffix # "" THEN DefaultContentType \o "+" \o formatSuffix
                      ELSE DefaultContentType,
                  !.signals = IF it.found /\ formatSuffix # ""
                              THEN Append(@, Sig(0, "qGrpcWarning", <<>>, FormatConflict))
                              ELSE @]

\* QGrpcHttp2ChannelPrivate::QGrpcHttp2ChannelPrivate: the content type is
\* resolved from the serialization format and the metadata of the options.
QGrpcHttp2ChannelPrivate(w) ==
    LET formatSuffix == w.channelOptions.serializationFormat
        contentTypeFromOptions ==
            IF formatSuffix # "" THEN DefaultContentType \o "+" \o formatSuffix
            ELSE DefaultContentType
        it == constFind(w.channelOptions.metadata, "content-type")
        infer == it.found /\ formatSuffix = "" /\ it.value # DefaultContentType
        chosen ==
            IF ~infer THEN formatSuffix
            ELSE IF it.value = "application/grpc+json" THEN suffix("Json")
            ELSE IF it.value = "application/grpc+proto" \/ it.value = DefaultContentType
                 THEN suffix("Protobuf")
            ELSE suffix("Default")
        cannotChoose ==
            infer /\ it.value \notin {"application/grpc+json", "application/grpc+proto"}
        warnAboutFormatConflict ==
            IF ~it.found THEN FALSE
            ELSE IF infer THEN formatSuffix # ""
            ELSE it.value # contentTypeFromOptions
        contentType ==
            IF formatSuffix = chosen THEN contentTypeFromOptions
            ELSE IF chosen # "" THEN DefaultContentType \o "+" \o chosen
            ELSE DefaultContentType
        w1 == [w EXCEPT !.channelOptions.serializationFormat = chosen,
                        !.m_contentType = contentType]
        w2 == IF cannotChoose THEN Emit(w1, Sig(0, "qGrpcWarning", <<>>, CannotChoose)) ELSE w1
    IN  IF warnAboutFormatConflict
        THEN Emit(w2, Sig(0, "qGrpcWarning", <<>>, FormatConflict))
        ELSE w2

\* The status a stream error code is reported with.
http2ErrorToStatusCode(http2Error) ==
    CASE http2Error \in {0, 1, 2, 3, 4, 5, 6} -> "Internal"
      [] http2Error = 7 -> "Unavailable"
      [] http2Error = 8 -> "Cancelled"
      [] http2Error \in {9, 10} -> "Internal"
      [] http2Error = 11 -> "ResourceExhausted"
      [] http2Error = 12 -> "PermissionDenied"
      [] http2Error = 13 -> "Unknown"
      [] OTHER -> "Internal"

\* QString::fromLatin1(value).toShort(): the decimal number the bytes spell,
\* 0 when they spell none or one that no short holds.
RECURSIVE decimal(_, _)
decimal(value, n) ==
    IF value = <<>> THEN n
    ELSE IF Head(value) \in 48..57 /\ n >= 0 /\ n <= 32767
         THEN decimal(Tail(value), 10 * n + Head(value) - 48)
         ELSE -1

toShort(value) ==
    LET n == IF value = <<>> THEN -1 ELSE decimal(value, 0)
    IN  IF n \in 0..32767 THEN n ELSE 0

\* static_cast<StatusCode>(QString::fromLatin1(value).toShort())
StatusCodeOf(n) ==
    CASE n = 0 -> "Ok"
      [] n = 1 -> "Cancelled"
      [] n = 2 -> "Unknown"
      [] n = 4 -> "DeadlineExceeded"
      [] n = 7 -> "PermissionDenied"
      [] n = 8 -> "ResourceExhausted"
      [] n = 13 -> "Internal"
      [] n = 14 -> "Unavailable"
      [] OTHER -> "Other"

\* A faulty variant: the front of the list is erased, not the handler found.
deleteHandler_Front(w, h) ==
    IF h \notin Range(w.m_activeHandlers) THEN w
    ELSE [w EXCEPT !.handler[h].life = "deleteLater",
                   !.m_activeHandlers = Tail(@)]

deleteHandler(w, h) ==
    IF h \notin Range(w.m_activeHandlers) THEN w
    ELSE [w EXCEPT !.handler[h].life = "deleteLater",
                   !.m_activeHandlers = EraseFirst(@, h)]

\* QHttp2Connection::createDirectConnection always hands out a connection.
createDirectConnection == TRUE

\* The socket is asked to connect.
m_reconnectFunction(w) ==
    [w EXCEPT !.socket = IF @ = "Unconnected" THEN "Connecting" ELSE @,
              !.signals = Append(@, Sig(0, "reconnect", <<>>, ""))]

\* QGrpcHttp2ChannelPrivate::sendInitialRequest.  `outcome` is what the
\* HTTP/2 layer answers: "ok", "noStream" (createStream failed), "noHeaders"
\* or "badHeaders" (sendHEADERS returned false).
sendInitialRequest(w, h, outcome) ==
    IF ~w.m_connection THEN operationContextAsyncError(w, h)
    ELSE IF outcome = "noStream" THEN operationContextAsyncError(w, h)
    ELSE handlerSendInitialRequest(attachStream(w, h), h, outcome)

isWritable(w) == w.socket \in {"Connecting", "Connected"}

\* A faulty variant: processOperation reconnects inline also from within the
\* emission of a socket error.
processOperation_Inline(w, o, endStream, outcome) ==
    IF ~isWritable(w) /\ w.m_state = "Connected"
    THEN operationContextAsyncError(w, o)
    ELSE LET w1 == [w EXCEPT !.errorObservers = Append(@, o)]
             w2 == newHandler(w1, o, endStream)
             w3 == IF ~w2.m_connection
                   THEN [w2 EXCEPT !.m_pendingHandlers = Append(@, o)]
                   ELSE [sendInitialRequest(w2, o, outcome)
                            EXCEPT !.m_activeHandlers = Append(@, o)]
         IN  IF w3.m_state = "Error"
             THEN [m_reconnectFunction(w3) EXCEPT !.m_state = "Connecting"]
             ELSE w3

\* A faulty variant: processOperation does not ask whether the socket is
\* writable.
processOperation_Unwritable(w, o, endStream, outcome) ==
    LET w1 == [w EXCEPT !.errorObservers = Append(@, o)]
        w2 == newHandler(w1, o, endStream)
        w3 == IF ~w2.m_connection
              THEN [w2 EXCEPT !.m_pendingHandlers = Append(@, o)]
              ELSE [sendInitialRequest(w2, o, outcome)
                       EXCEPT !.m_activeHandlers = Append(@, o)]
    IN  IF w3.m_state = "Error"
        THEN [(IF w3.m_isInsideSocketErrorOccurred
               THEN [w3 EXCEPT !.reconnectTimer = TRUE]
               ELSE m_reconnectFunction(w3))
                 EXCEPT !.m_state = "Connecting"]
        ELSE w3

\* A faulty variant: the new handler goes to the active list whether the
\* connection is there or not.
processOperation_AlwaysActive(w, o, endStream, outcome) ==
    IF ~isWritable(w) /\ w.m_state = "Connected"
    THEN operationContextAsyncError(w, o)
    ELSE LET w1 == [w EXCEPT !.errorObservers = Append(@, o)]
             w2 == newHandler(w1, o, endStream)
             w3 == [sendInitialRequest(w2, o, outcome)
                       EXCEPT !.m_activeHandlers = Append(@, o)]
         IN  IF w3.m_state = "Error"
             THEN [(IF w3.m_isInsideSocketErrorOccurred
                    THEN [w3 EXCEPT !.reconnectTimer = TRUE]
                    ELSE m_reconnectFunction(w3))
                      EXCEPT !.m_state = "Connecting"]
             ELSE w3

processOperation(w, o, endStream, outcome) ==
    IF ~isWritable(w) /\ w.m_state = "Connected"
    THEN operationContextAsyncError(w, o)
    ELSE LET w1 == [w EXCEPT !.errorObservers = Append(@, o)]
             w2 == newHandler(w1, o, endStream)
             w3 == IF ~w2.m_connection
                   THEN [w2 EXCEPT !.m_pendingHandlers = Append(@, o)]
                   ELSE [sendInitialRequest(w2, o, outcome)
                            EXCEPT !.m_activeHandlers = Append(@, o)]
         IN  IF w3.m_state = "Error"
             THEN [(IF w3.m_isInsideSocketErrorOccurred
                    THEN [w3 EXCEPT !.reconnectTimer = TRUE]
                    ELSE m_reconnectFunction(w3))
                      EXCEPT !.m_state = "Connecting"]
             ELSE w3

\* A faulty variant: the loop does not look at expired().
RECURSIVE flushPending_Expired(_, _, _)
flushPending_Expired(w, list, outcome) ==
    IF list = <<>> THEN w
    ELSE flushPending_Expired(sendInitialRequest(w, Head(list), outcome[Head(list)]),
                              Tail(list), outcome)

\* The loop of createHttp2Connection over m_pendingHandlers.
RECURSIVE flushPending(_, _, _)
flushPending(w, list, outcome) ==
    IF list = <<>> THEN w
    ELSE LET h == Head(list)
         IN  flushPending(IF expired(w, h) THEN destroyHandler(w, h)
                          ELSE sendInitialRequest(w, h, outcome[h]),
                          Tail(list), outcome)

createHttp2Connection(w, outcome) ==
    LET w1 == [w EXCEPT !.m_connection = createDirectConnection]
        w2 == IF w1.m_connection THEN [w1 EXCEPT !.m_state = "Connected"] ELSE w1
        w3 == flushPending(w2, w2.m_pendingHandlers, outcome)
    IN  [w3 EXCEPT !.m_activeHandlers = @ \o w3.m_pendingHandlers,
                   !.m_pendingHandlers = <<>>]

\* qDeleteAll over a list of handlers.
RECURSIVE qDeleteAll(_, _)
qDeleteAll(w, list) ==
    IF list = <<>> THEN w ELSE qDeleteAll(destroyHandler(w, Head(list)), Tail(list))

\* `delete m_connection` takes the streams with it; a handler that waits for
\* its deferred deletion is left with a cleared QPointer.
connectionDeleted(w) ==
    [w EXCEPT !.handler = [h \in Ops |->
        IF w.handler[h].life = "deleteLater"
        THEN [w.handler[h] EXCEPT !.m_stream = "null", !.uploading = FALSE]
        ELSE w.handler[h]]]

\* A faulty variant: the connection object outlives the socket error.
handleSocketError_KeepsConnection(w) ==
    LET w1 == qDeleteAll(w, w.m_activeHandlers)
        w2 == qDeleteAll([w1 EXCEPT !.m_activeHandlers = <<>>], w1.m_pendingHandlers)
    IN  [w2 EXCEPT !.m_pendingHandlers = <<>>,
                   !.m_state = "Error"]

\* A faulty variant: the slot asks the socket to connect again by itself.
handleSocketError_Reconnects(w) ==
    LET w1 == qDeleteAll(w, w.m_activeHandlers)
        w2 == qDeleteAll([w1 EXCEPT !.m_activeHandlers = <<>>], w1.m_pendingHandlers)
    IN  m_reconnectFunction([connectionDeleted(w2) EXCEPT !.m_pendingHandlers = <<>>,
                                                          !.m_connection = FALSE,
                                                          !.m_state = "Error"])

handleSocketError(w) ==
    LET w1 == qDeleteAll(w, w.m_activeHandlers)
        w2 == qDeleteAll([w1 EXCEPT !.m_activeHandlers = <<>>], w1.m_pendingHandlers)
    IN  [connectionDeleted(w2) EXCEPT !.m_pendingHandlers = <<>>,
                                      !.m_connection = FALSE,
                                      !.m_state = "Error"]

\* A handler of the lists was deleted before: deleting it again is undefined.
Dangling(w) ==
    \E h \in Range(w.m_activeHandlers) \cup Range(w.m_pendingHandlers) :
        w.handler[h].life = "deleted"

\* The user issues RPC o: the operation and its context are created and
\* handed to processOperation.
issue(w, o, endStream, deadline, outcome) ==
    processOperation([w EXCEPT !.operation[o] =
                         [NoOperation EXCEPT !.issued = TRUE, !.alive = TRUE,
                                             !.callDeadline = deadline]],
                     o, endStream, outcome)

\* The same for an RPC whose call options carry metadata.
issueWithMetadata(w, o, endStream, metadata, outcome) ==
    processOperation([w EXCEPT !.operation[o] =
                         [NoOperation EXCEPT !.issued = TRUE, !.alive = TRUE,
                                             !.callMetadata = metadata]],
                     o, endStream, outcome)

NoReissue == [at |-> 0, new |-> 0, endStream |-> FALSE]

\* The lambda of connectErrorHandler for operation o.  `re` names the RPC
\* that the user's finished slot issues from inside this callback, if any.
connectErrorHandler(w, o, re) ==
    IF w.m_isInsideSocketErrorOccurred THEN w
    ELSE LET w1 == [w EXCEPT !.m_isInsideSocketErrorOccurred = TRUE]
             w2 == emitFinished(w1, o, "Unavailable")
             w3 == IF re.at = o /\ ~w1.operation[o].isFinished
                   THEN issue(w2, re.new, re.endStream, FALSE, "ok")
                   ELSE w2
         IN  [w3 EXCEPT !.m_isInsideSocketErrorOccurred = FALSE]

RECURSIVE errorOccurred(_, _, _)
errorOccurred(w, observers, re) ==
    IF observers = <<>> THEN w
    ELSE errorOccurred(connectErrorHandler(w, Head(observers), re), Tail(observers), re)

\* A faulty variant: cancel() does not look at isFinished().
operationCancel_Again(w, o) ==
    LET w1 == [w EXCEPT !.operation[o].isFinished = TRUE,
                        !.signals = Append(@, Sig(o, "cancelRequested", <<>>, ""))]
        w2 == IF w1.handler[o].life \in Live THEN cancel(w1, o).w ELSE w1
    IN  [w2 EXCEPT !.signals = Append(@, Sig(o, "QGrpcOperation::finished", <<>>,
                                             "Cancelled")),
                   !.hist[o].userFinished = Inc(@)]

\* QGrpcOperation::cancel
operationCancel(w, o) ==
    IF w.operation[o].isFinished THEN w
    ELSE LET w1 == [w EXCEPT !.operation[o].isFinished = TRUE,
                             !.signals = Append(@, Sig(o, "cancelRequested", <<>>, ""))]
             w2 == IF w1.handler[o].life \in Live THEN cancel(w1, o).w ELSE w1
         IN  [w2 EXCEPT !.signals = Append(@, Sig(o, "QGrpcOperation::finished", <<>>,
                                                  "Cancelled")),
                        !.hist[o].userFinished = Inc(@)]

\* ------------------------------------------------------------- input sets
Outcomes == {"ok", "noStream", "noHeaders", "badHeaders"}

\* Header frames of the peer: none of the gRPC headers, a status, a status
\* with a message.
\* Header values are bytes: "0", "13" and "boom".
HeaderLists ==
    { <<>>,
      << [name |-> "grpc-status", value |-> <<48>>] >>,
      << [name |-> "grpc-status", value |-> <<49, 51>>],
         [name |-> "grpc-message", value |-> <<98, 111, 111, 109>>] >> }

ErrorCodes == {2, 7, 8}

\* Every code of Http2::Http2Error and one that is none of them.
Http2Errors == 0..14

PeerFrame == frame(PeerPayload)

\* The peer sends PeerFrame over and over.  A DATA frame carries the bytes
\* from where the last one stopped (`from` bytes into a frame) to one of
\* these cuts (a length header, a whole frame, two frames), or nothing.
PeerCuts ==
    { GrpcMessageSizeHeaderSize, Len(PeerFrame), 2 * Len(PeerFrame) }

DataChunks(from) ==
    { SubSeq(PeerFrame \o PeerFrame, from + 1, k) : k \in { c \in PeerCuts : c > from } }
        \cup { <<>> }

\* ------------------------------------------------------------------ actions
\* deleteLater posts an event, and the event loop delivers posted events
\* before it looks at timers and sockets again: nothing else happens while
\* a deletion is posted.
Running == ~crashed /\ \A h \in Ops : handler[h].life # "deleteLater"

NextOp(o) == /\ ~operation[o].issued
             /\ \A p \in Ops : p < o => operation[p].issued

\* The user issues the next RPC (call, serverStream, clientStream, bidiStream).
ProcessOperation(o, endStream, deadline, outcome) ==
    /\ Running
    /\ NextOp(o)
    /\ Commit(issue(On("processOperation", o, <<>>, ""), o, endStream, deadline, outcome))
    /\ UNCHANGED <<wire, wirePos, received, sent>>

\* The socket reports connected / encrypted.
SocketConnected(outcome) ==
    /\ Running
    /\ socket = "Connecting"
    /\ Commit(createHttp2Connection([On("connected", 0, <<>>, "") EXCEPT !.socket = "Connected"],
                                    outcome))
    /\ UNCHANGED <<wire, wirePos, received, sent>>

\* The socket reports an error: first the channel's slot (handleSocketError),
\* then the slot of every operation connected by connectErrorHandler.
SocketError(re) ==
    /\ Running
    /\ socket \in {"Connecting", "Connected"}
    /\ ~Dangling(World)
    /\ re.at # 0 => /\ re.at \in Range(errorObservers)
                    /\ NextOp(re.new)
    /\ Commit(errorOccurred(handleSocketError([On("socketError", 0, <<>>, "")
                                                  EXCEPT !.socket = "Unconnected"]),
                            errorObservers, re))
    /\ UNCHANGED <<wire, wirePos, received, sent>>

\* The same with a handler in the lists that was deleted before: the second
\* delete is undefined behaviour; it goes unnoticed or aborts the process.
SocketErrorDoubleDelete(abort) ==
    /\ Running
    /\ socket \in {"Connecting", "Connected"}
    /\ Dangling(World)
    /\ IF abort
       THEN Commit([On("socketError", 0, <<>>, "") EXCEPT !.crashed = TRUE])
       ELSE Commit(errorOccurred(handleSocketError([On("socketError", 0, <<>>, "")
                                                       EXCEPT !.socket = "Unconnected"]),
                                 errorObservers, NoReissue))
    /\ UNCHANGED <<wire, wirePos, received, sent>>

\* The socket is closed without any error being reported.
SocketClosedSilently ==
    /\ Running
    /\ socket = "Connected"
    /\ Commit([On("socketClosed", 0, <<>>, "") EXCEPT !.socket = "Closed"])
    /\ UNCHANGED <<wire, wirePos, received, sent>>

\* The zero timer of processOperation fires.
DeferredReconnect ==
    /\ Running
    /\ reconnectTimer
    /\ Commit(m_reconnectFunction([On("reconnectTimer", 0, <<>>, "")
                                      EXCEPT !.reconnectTimer = FALSE]))
    /\ UNCHANGED <<wire, wirePos, received, sent>>

\* The zero timer of operationContextAsyncError fires.
AsyncError(o) ==
    /\ Running
    /\ operation[o].asyncError
    /\ Commit(emitFinished([On("asyncErrorTimer", o, <<>>, "")
                               EXCEPT !.operation[o].asyncError = FALSE], o, "Unavailable"))
    /\ UNCHANGED <<wire, wirePos, received, sent>>

\* The event loop runs the deletion requested by deleteLater.
DeferredDelete(h) ==
    /\ ~crashed
    /\ handler[h].life = "deleteLater"
    /\ Commit(destroyHandler(On("deferredDelete", h, <<>>, ""), h))
    /\ UNCHANGED <<wire, wirePos, received, sent>>

\* What the peer may still send on the stream of handler h.
PeerMaySend(h) ==
    /\ handler[h].life \in Live
    /\ handler[h].m_stream # "null"
    /\ handler[h].headersSent
    /\ ~handler[h].peerDone

\* The stream records that the peer ended it.
peerEnds(w, h, endStream) ==
    IF endStream
    THEN [w EXCEPT !.handler[h].peerDone = TRUE,
                   !.handler[h].m_stream = AfterRecvEnd(@)]
    ELSE w

\* QHash::insert: the value of a name that is there is replaced.
insert(md, name, value) ==
    { e \in md : e.name # name } \cup { [name |-> name, value |-> value] }

\* The loop of the headersReceived callback over the headers of the frame.
RECURSIVE readHeaders(_, _)
readHeaders(headers, acc) ==
    IF headers = <<>> THEN acc
    ELSE LET header == Head(headers)
             md == insert(acc.md, header.name, header.value)
         IN  readHeaders(Tail(headers),
                 IF header.name = "grpc-status"
                 THEN [acc EXCEPT !.md = md,
                                  !.statusCode = StatusCodeOf(toShort(header.value))]
                 ELSE IF header.name = "grpc-message"
                 THEN [acc EXCEPT !.md = md, !.statusMessage = header.value]
                 ELSE [acc EXCEPT !.md = md])

\* A faulty variant: the status of the peer is reported to a Cancelled
\* handler as well.
headersReceived_WhenCancelled(w, h, headers, endStream) ==
    LET r  == readHeaders(headers, [md |-> w.operation[h].serverMetadata,
                                    statusCode |-> "Ok", statusMessage |-> <<>>])
        w1 == [w EXCEPT !.operation[h].serverMetadata = r.md]
    IN  IF ~endStream THEN w1
        ELSE deleteHandler(emitFinishedWith(w1, h, r.statusCode, r.statusMessage), h)

\* The headersReceived callback of attachStream.
headersReceived(w, h, headers, endStream) ==
    LET r  == readHeaders(headers, [md |-> w.operation[h].serverMetadata,
                                    statusCode |-> "Ok", statusMessage |-> <<>>])
        w1 == [w EXCEPT !.operation[h].serverMetadata = r.md]
    IN  IF ~endStream THEN w1
        ELSE deleteHandler(IF w1.handler[h].m_handlerState # "Cancelled"
                           THEN emitFinishedWith(w1, h, r.statusCode, r.statusMessage)
                           ELSE w1, h)

HeadersReceived(h, headers, endStream) ==
    /\ Running
    /\ PeerMaySend(h)
    /\ LET e == On("headersReceived", h, <<>>, EndFlag(endStream))
           w == peerEnds([e EXCEPT !.signals[1].headers = headers], h, endStream)
       IN  Commit(IF expired(w, h) THEN w ELSE headersReceived(w, h, headers, endStream))
    /\ UNCHANGED <<wire, wirePos, received, sent>>

\* A faulty variant: the callback does not look at m_handlerState.
dataReceived_WhenCancelled(w, h, data, endStream) ==
    LET r  == receiveData(w.handler[h].m_expectedData, data)
        w1 == emitMessages([w EXCEPT !.handler[h].m_expectedData = r.ed], h, r.out)
    IN  IF r.atEnd /\ endStream
        THEN deleteHandler(emitFinished([w1 EXCEPT !.handler[h].m_handlerState = "Finished"],
                                        h, "Ok"), h)
        ELSE w1

\* The dataReceived callback of attachStream.
dataReceived(w, h, data, endStream) ==
    IF w.handler[h].m_handlerState = "Cancelled" THEN w
    ELSE LET r  == receiveData(w.handler[h].m_expectedData, data)
             w1 == emitMessages([w EXCEPT !.handler[h].m_expectedData = r.ed], h, r.out)
         IN  IF r.atEnd /\ endStream
             THEN deleteHandler(emitFinished([w1 EXCEPT !.handler[h].m_handlerState = "Finished"],
                                             h, "Ok"), h)
             ELSE w1

\* How far into a frame the peer is, as far as handler h has followed it.
PeerPos(h) ==
    IF operation[h].alive /\ handler[h].m_handlerState # "Cancelled"
    THEN Len(handler[h].m_expectedData.container)
    ELSE 0

DataReceived(h, data, endStream) ==
    /\ Running
    /\ PeerMaySend(h)
    /\ data \in DataChunks(PeerPos(h))
    /\ LET w == peerEnds(On("dataReceived", h, data, EndFlag(endStream)), h, endStream)
       IN  Commit(IF expired(w, h) THEN w ELSE dataReceived(w, h, data, endStream))
    /\ UNCHANGED <<wire, wirePos, received, sent>>

\* A faulty variant: the connection is not disconnected after it fired.
streamErrorOccurred_StaysConnected(w, h, http2ErrorCode) ==
    LET w1 == IF ~expired(w, h)
              THEN emitFinished(w, h, http2ErrorToStatusCode(http2ErrorCode))
              ELSE w
    IN  deleteHandler(w1, h)

\* The errorOccurred callback of attachStream.
streamErrorOccurred(w, h, http2ErrorCode) ==
    LET w1 == IF ~expired(w, h)
              THEN emitFinished(w, h, http2ErrorToStatusCode(http2ErrorCode))
              ELSE w
    IN  [deleteHandler(w1, h) EXCEPT !.handler[h].errorConnection = FALSE]

StreamError(h, http2ErrorCode) ==
    /\ Running
    /\ PeerMaySend(h)
    /\ LET w == [On("errorOccurred", h, <<http2ErrorCode>>, "")
                     EXCEPT !.handler[h].peerDone = TRUE,
                       !.handler[h].m_stream = "Closed",
                       !.handler[h].uploading = FALSE,
                       !.handler[h].streamErrors = Inc(@)]
       IN  Commit(IF w.handler[h].errorConnection
                  THEN streamErrorOccurred(w, h, http2ErrorCode) ELSE w)
    /\ UNCHANGED <<wire, wirePos, received, sent>>

\* The stream reports one more error before the posted deletion of its
\* handler has run.
StreamErrorAgain(h, http2ErrorCode) ==
    /\ ~crashed
    /\ handler[h].life = "deleteLater"
    /\ handler[h].m_stream # "null"
    /\ handler[h].streamErrors < CountCap
    /\ LET w == [On("errorOccurred", h, <<http2ErrorCode>>, "")
                     EXCEPT !.handler[h].peerDone = TRUE,
                       !.handler[h].m_stream = "Closed",
                       !.handler[h].uploading = FALSE,
                       !.handler[h].streamErrors = Inc(@)]
       IN  Commit(IF w.handler[h].errorConnection
                  THEN streamErrorOccurred(w, h, http2ErrorCode) ELSE w)
    /\ UNCHANGED <<wire, wirePos, received, sent>>

\* The stream finished the upload of a DATA frame: uploadFinished.
UploadFinished(h) ==
    /\ Running
    /\ handler[h].life \in Live
    /\ handler[h].uploading
    /\ LET w == [On("uploadFinished", h, <<>>, "") EXCEPT
                       !.handler[h].uploading = FALSE,
                       !.handler[h].uploadEnd = FALSE,
                       !.handler[h].m_stream =
                           IF handler[h].uploadEnd THEN AfterSendEnd(@) ELSE @]
       IN  Commit(processQueue(w, h))
    /\ UNCHANGED <<wire, wirePos, received, sent>>

\* m_deadlineTimer fires (it is not a single-shot timer).
DeadlineTimeout(h) ==
    /\ Running
    /\ handler[h].life \in Live
    /\ handler[h].m_deadlineTimer
    /\ Commit(deadlineTimeout(On("deadlineTimer", h, <<>>, ""), h))
    /\ UNCHANGED <<wire, wirePos, received, sent>>

\* The user calls QGrpcOperation::cancel().
UserCancel(o) ==
    /\ Running
    /\ operation[o].alive
    /\ Commit(operationCancel(On("cancel", o, <<>>, ""), o))
    /\ UNCHANGED <<wire, wirePos, received, sent>>

\* The user half-closes: the context emits writesDoneRequested.
UserWritesDone(o) ==
    /\ Running
    /\ operation[o].alive
    /\ handler[o].life \in Live
    /\ Commit(writesDone(On("writesDone", o, <<>>, ""), o))
    /\ UNCHANGED <<wire, wirePos, received, sent>>

\* The user writes a message: the context emits writeMessageRequested,
\* which only a handler of a client or bidirectional stream is connected to.
UserWriteMessage(o) ==
    /\ Running
    /\ operation[o].alive
    /\ handler[o].life \in Live
    /\ ~handler[o].m_endStreamAtFirstData
    /\ Len(handler[o].m_queue) < MaxQueue
    /\ Commit(writeMessage(On("writeMessage", o, Argument, ""), o, Argument))
    /\ UNCHANGED <<wire, wirePos, received, sent>>

\* The user destroys the operation: the context expires, and every
\* connection and posted call that has it as context object goes with it.
DropOperation(o) ==
    /\ Running
    /\ operation[o].alive
    /\ Commit([On("destroyed", o, <<>>, "")
                   EXCEPT !.operation[o] = [NoOperation EXCEPT !.issued = TRUE],
                          !.errorObservers = Without(@, o)])
    /\ UNCHANGED <<wire, wirePos, received, sent>>

\* ------------------------------------------------------------ specification
Init ==
    /\ m_state = "Connecting"
    /\ m_connection = FALSE
    /\ m_activeHandlers = <<>>
    /\ m_pendingHandlers = <<>>
    /\ m_isInsideSocketErrorOccurred = FALSE
    /\ socket = "Connecting"
    /\ errorObservers = <<>>
    /\ reconnectTimer = FALSE
    /\ channelDeadline \in BOOLEAN
    /\ channelOptions = DefaultOptions
    /\ m_contentType = DefaultContentType
    /\ handler = [h \in Ops |-> NoHandler]
    /\ operation = [o \in Ops |-> NoOperation]
    /\ hist = [o \in Ops |-> NoHist]
    /\ signals = <<>>
    /\ crashed = FALSE
    /\ wire = <<>>
    /\ wirePos = 0
    /\ received = <<>>
    /\ sent = <<>>

Reissues ==
    { NoReissue } \cup
    { [at |-> o, new |-> n, endStream |-> e] : o \in Ops, n \in Ops, e \in BOOLEAN }

\* Every earlier RPC is over: its handler is gone and the user dropped it.
Alone(o) ==
    \A p \in Ops : p < o => ~operation[p].alive /\ handler[p].life \notin Live

\* One RPC at a time, with every event that can befall it.
Next ==
    \/ \E o \in Ops, e \in BOOLEAN, d \in BOOLEAN, out \in Outcomes :
           Alone(o) /\ ProcessOperation(o, e, d, out)
    \/ \E out \in [Ops -> Outcomes] : SocketConnected(out)
    \/ SocketError(NoReissue)
    \/ \E abort \in BOOLEAN : SocketErrorDoubleDelete(abort)
    \/ SocketClosedSilently
    \/ \E o \in Ops : AsyncError(o)
    \/ \E h \in Ops : DeferredDelete(h)
    \/ \E h \in Ops, hs \in HeaderLists, e \in BOOLEAN : HeadersReceived(h, hs, e)
    \/ \E h \in Ops, e \in BOOLEAN : \E d \in DataChunks(PeerPos(h)) : DataReceived(h, d, e)
    \/ \E h \in Ops, c \in ErrorCodes : StreamError(h, c)
    \/ \E h \in Ops : UploadFinished(h)
    \/ \E h \in Ops : DeadlineTimeout(h)
    \/ \E o \in Ops : UserCancel(o)
    \/ \E o \in Ops : UserWritesDone(o)
    \/ \E o \in Ops : UserWriteMessage(o)
    \/ \E o \in Ops : DropOperation(o)

Spec == Init /\ [][Next]_vars

\* Several RPCs at once on one channel, each a unary call or a server stream
\* without a deadline, with whole messages and whole streams from the peer.
NextChannel ==
    \/ \E o \in Ops, out \in {"ok", "noStream"} : ProcessOperation(o, TRUE, FALSE, out)
    \/ \E out \in [Ops -> {"ok", "noStream"}] : SocketConnected(out)
    \/ \E re \in Reissues : SocketError(re)
    \/ \E abort \in BOOLEAN : SocketErrorDoubleDelete(abort)
    \/ SocketClosedSilently
    \/ DeferredReconnect
    \/ \E o \in Ops : AsyncError(o)
    \/ \E h \in Ops : DeferredDelete(h)
    \/ \E h \in Ops : HeadersReceived(h, <<>>, TRUE)
    \/ \E h \in Ops : PeerPos(h) = 0 /\ DataReceived(h, PeerFrame, FALSE)
    \/ \E h \in Ops, c \in ErrorCodes : StreamError(h, c)
    \/ \E h \in Ops : UploadFinished(h)
    \/ \E o \in Ops : UserCancel(o)
    \/ \E o \in Ops : DropOperation(o)

\* A channel whose options carry no deadline.
InitChannel == Init /\ channelDeadline = FALSE

SpecChannel == InitChannel /\ [][NextChannel]_vars

\* ------------------------------------------------ stream error specification
\* One RPC at a time whose stream fails with any error code, once or again
\* while the deletion of the handler is posted.
NextStream ==
    \/ \E o \in Ops, e \in BOOLEAN : Alone(o) /\ ProcessOperation(o, e, FALSE, "ok")
    \/ SocketConnected([o \in Ops |-> "ok"])
    \/ \E h \in Ops, c \in Http2Errors : StreamError(h, c)
    \/ \E h \in Ops, c \in Http2Errors : StreamErrorAgain(h, c)
    \/ \E h \in Ops : HeadersReceived(h, <<>>, TRUE)
    \/ \E h \in Ops : DeferredDelete(h)
    \/ \E h \in Ops : UploadFinished(h)
    \/ \E o \in Ops : UserCancel(o)
    \/ \E o \in Ops : DropOperation(o)

SpecStream == InitChannel /\ [][NextStream]_vars

\* ------------------------------------------------ reassembly specification
\* The payloads the peer may send: none, one byte, and six zero bytes, which
\* read like a length header of their own.
Payloads == { <<>>, <<9>>, <<0, 0, 0, 0, 0, 0>> }

Wires == UNION { [1..n -> Payloads] : n \in 0..MaxWire }

\* The bytes of the messages ms, each framed as writeMessage frames it.
RECURSIVE WireBytes(_)
WireBytes(ms) == IF ms = <<>> THEN <<>> ELSE frame(Head(ms)) \o WireBytes(Tail(ms))

\* The channel after construction.
World0 ==
    [ m_state |-> "Connecting", m_connection |-> FALSE,
      m_activeHandlers |-> <<>>, m_pendingHandlers |-> <<>>,
      m_isInsideSocketErrorOccurred |-> FALSE,
      socket |-> "Connecting", errorObservers |-> <<>>,
      reconnectTimer |-> FALSE, channelDeadline |-> FALSE,
      channelOptions |-> DefaultOptions, m_contentType |-> DefaultContentType,
      handler |-> [h \in Ops |-> NoHandler], operation |-> [o \in Ops |-> NoOperation],
      hist |-> [o \in Ops |-> NoHist], signals |-> <<>>, crashed |-> FALSE ]

\* A server stream is issued, the socket connects and the request goes out.
WorldStreaming ==
    createHttp2Connection(
        [issue(World0, 1, TRUE, FALSE, "ok")
            EXCEPT !.socket = "Connected",
                   !.signals = << [op |-> 0, sig |-> "connected", data |-> <<>>, status |-> "", headers |-> <<>>] >>],
        [o \in Ops |-> "ok"])

InitWire ==
    /\ m_state = WorldStreaming.m_state
    /\ m_connection = WorldStreaming.m_connection
    /\ m_activeHandlers = WorldStreaming.m_activeHandlers
    /\ m_pendingHandlers = WorldStreaming.m_pendingHandlers
    /\ m_isInsideSocketErrorOccurred = WorldStreaming.m_isInsideSocketErrorOccurred
    /\ socket = WorldStreaming.socket
    /\ errorObservers = WorldStreaming.errorObservers
    /\ reconnectTimer = WorldStreaming.reconnectTimer
    /\ channelDeadline = WorldStreaming.channelDeadline
    /\ channelOptions = WorldStreaming.channelOptions
    /\ m_contentType = WorldStreaming.m_contentType
    /\ handler = WorldStreaming.handler
    /\ operation = WorldStreaming.operation
    /\ hist = WorldStreaming.hist
    /\ signals = WorldStreaming.signals
    /\ crashed = WorldStreaming.crashed
    /\ wire \in Wires
    /\ wirePos = 0
    /\ received = <<>>
    /\ sent = <<>>

\* The payloads of the messageReceived emissions in a signal log.
RECURSIVE Messages(_)
Messages(log) ==
    IF log = <<>> THEN <<>>
    ELSE IF Head(log).sig = "messageReceived"
         THEN <<Head(log).data>> \o Messages(Tail(log))
         ELSE Messages(Tail(log))

\* The next n bytes of the wire arrive in one DATA frame.
WireData(n) ==
    /\ Running
    /\ PeerMaySend(1)
    /\ wirePos + n <= Len(WireBytes(wire))
    /\ LET data == SubSeq(WireBytes(wire), wirePos + 1, wirePos + n)
           w    == dataReceived(On("dataReceived", 1, data, ""), 1, data, FALSE)
       IN  /\ Commit(w)
           /\ received' = received \o Messages(w.signals)
    /\ wirePos' = wirePos + n
    /\ wire' = wire
    /\ sent' = sent

NextWire == \E n \in 0..Len(WireBytes(wire)) : WireData(n)

SpecWire == InitWire /\ [][NextWire]_vars

\* --------------------------------------------------- framing specification
\* The messages the user may write: those of the reassembly specification
\* and one whose length needs two bytes.
LongPayload == [i \in 1..MaxPayload |-> i % 256]

FramePayloads == Payloads \cup { LongPayload }

\* A bidirectional stream is issued, the socket connects and the request
\* goes out; the first message is being uploaded.
WorldBidi ==
    createHttp2Connection(
        [issue(World0, 1, FALSE, FALSE, "ok")
            EXCEPT !.socket = "Connected",
                   !.signals = << [op |-> 0, sig |-> "connected", data |-> <<>>, status |-> "", headers |-> <<>>] >>],
        [o \in Ops |-> "ok"])

InitFrame ==
    /\ m_state = WorldBidi.m_state
    /\ m_connection = WorldBidi.m_connection
    /\ m_activeHandlers = WorldBidi.m_activeHandlers
    /\ m_pendingHandlers = WorldBidi.m_pendingHandlers
    /\ m_isInsideSocketErrorOccurred = WorldBidi.m_isInsideSocketErrorOccurred
    /\ socket = WorldBidi.socket
    /\ errorObservers = WorldBidi.errorObservers
    /\ reconnectTimer = WorldBidi.reconnectTimer
    /\ channelDeadline = WorldBidi.channelDeadline
    /\ channelOptions = WorldBidi.channelOptions
    /\ m_contentType = WorldBidi.m_contentType
    /\ handler = WorldBidi.handler
    /\ operation = WorldBidi.operation
    /\ hist = WorldBidi.hist
    /\ signals = WorldBidi.signals
    /\ crashed = WorldBidi.crashed
    /\ wire \in { <<P>> : P \in FramePayloads }
    /\ wirePos = 0
    /\ received = <<>>
    /\ sent = <<>>

\* The bytes of the DATA frames in a signal log.
RECURSIVE DataBytes(_)
DataBytes(log) ==
    IF log = <<>> THEN <<>>
    ELSE IF Head(log).sig \in {"DATA", "DATA+END_STREAM"}
         THEN Head(log).data \o DataBytes(Tail(log))
         ELSE DataBytes(Tail(log))

\* The user writes the message wire[1] once the stream is free; the DATA
\* frame goes to a peer that sends back what it gets.
FrameWrite ==
    /\ Running
    /\ operation[1].alive
    /\ handler[1].life \in Live
    /\ ~handler[1].uploading
    /\ sent = <<>>
    /\ LET w == writeMessage(On("writeMessage", 1, wire[1], ""), 1, wire[1])
       IN  /\ Commit(w)
           /\ sent' = DataBytes(w.signals)
    /\ UNCHANGED <<wire, wirePos, received>>

\* The next n bytes of what was sent come back in one DATA frame.
FrameEcho(n) ==
    /\ Running
    /\ PeerMaySend(1)
    /\ sent # <<>>
    /\ wirePos + n <= Len(sent)
    /\ LET data == SubSeq(sent, wirePos + 1, wirePos + n)
           w    == dataReceived(On("dataReceived", 1, data, ""), 1, data, FALSE)
       IN  /\ Commit(w)
           /\ received' = received \o Messages(w.signals)
    /\ wirePos' = wirePos + n
    /\ UNCHANGED <<wire, sent>>

\* The peer sends back one byte, as many bytes as a length header has, or
\* all that is left.
EchoCuts == { 1, GrpcMessageSizeHeaderSize, Len(sent) - wirePos }

NextFrame ==
    \/ UploadFinished(1)
    \/ FrameWrite
    \/ \E n \in EchoCuts : FrameEcho(n)

SpecFrame == InitFrame /\ [][NextFrame]_vars

\* --------------------------------------------------- options specification
\* A channel is made from options with metadata and a serialization format,
\* and an RPC with metadata of its own is issued on it.
ContentTypes ==
    { "application/grpc", "application/grpc+proto", "application/grpc+json", "text/plain" }

ChannelEntries ==
    { [key |-> "x", value |-> "1"], [key |-> "X", value |-> "3"],
      [key |-> "Content-Type", value |-> "application/grpc+proto"] }
        \cup { [key |-> "content-type", value |-> v] : v \in ContentTypes }

CallEntries ==
    { [key |-> "x", value |-> "2"], [key |-> "X", value |-> "4"],
      [key |-> "content-type", value |-> "text/plain"],
      [key |-> ":Path", value |-> "/other"] }

\* The contents a QHash over these entries can have, in every order of iteration.
Metadata(entries) ==
    { md \in UNION { [1..n -> entries] : n \in 0..MaxMetadata } :
        \A i, j \in 1..Len(md) : i # j => md[i].key # md[j].key }

\* The suffixes of the serialization formats: default, protobuf, JSON, and one
\* of the user's own.
FormatSuffixes == { "", "proto", "json", "dummy" }

InitOptions ==
    /\ m_state = "Connecting"
    /\ m_connection = FALSE
    /\ m_activeHandlers = <<>>
    /\ m_pendingHandlers = <<>>
    /\ m_isInsideSocketErrorOccurred = FALSE
    /\ socket = "Connecting"
    /\ errorObservers = <<>>
    /\ reconnectTimer = FALSE
    /\ channelDeadline = FALSE
    /\ channelOptions \in [metadata : Metadata(ChannelEntries),
                            serializationFormat : FormatSuffixes]
    /\ m_contentType = ""
    /\ handler = [h \in Ops |-> NoHandler]
    /\ operation = [o \in Ops |-> NoOperation]
    /\ hist = [o \in Ops |-> NoHist]
    /\ signals = <<>>
    /\ crashed = FALSE
    /\ wire = <<>>
    /\ wirePos = 0
    /\ received = <<>>
    /\ sent = <<>>

\* The user makes the channel: the constructor runs.
NewChannel ==
    /\ m_contentType = ""
    /\ Commit(QGrpcHttp2ChannelPrivate(On("QGrpcHttp2Channel", 0, <<>>, "")))
    /\ UNCHANGED <<wire, wirePos, received, sent>>

\* The user issues a unary call with metadata in its call options.
ProcessOperationWithMetadata(o, metadata) ==
    /\ m_contentType # ""
    /\ Running
    /\ NextOp(o)
    /\ Commit(issueWithMetadata(On("processOperation", o, <<>>, ""), o, TRUE, metadata, "ok"))
    /\ UNCHANGED <<wire, wirePos, received, sent>>

NextOptions ==
    \/ NewChannel
    \/ \E md \in Metadata(CallEntries) : ProcessOperationWithMetadata(1, md)
    \/ m_contentType # "" /\ SocketConnected([o \in Ops |-> "ok"])

SpecOptions == InitOptions /\ [][NextOptions]_vars

\* ------------------------------------------------------------- properties
\* What the operation context of RPC o emitted in a signal log, in order.
ContextSignals(log, o) ==
    SelectSeq(log, LAMBDA x : x.op = o /\ x.sig \in {"messageReceived", "finished"})

Listed(h) == h \in Range(m_activeHandlers) \cup Range(m_pendingHandlers)

\* A handler of a unary call that is Active, has its stream, and whose
\* reassembly buffer is empty.
UnaryAwaitingResponse(h) ==
    /\ handler[h].life = "alive"
    /\ handler[h].m_handlerState = "Active"
    /\ handler[h].m_stream # "null"
    /\ handler[h].m_endStreamAtFirstData
    /\ handler[h].m_expectedData = ExpectedData0
    /\ operation[h].alive

\* The event the latest step handled.
Event == IF signals = <<>> THEN [op |-> 0, sig |-> "", data |-> <<>>, status |-> "", headers |-> <<>>]
         ELSE Head(signals)

\* C1: when the handler of a unary call is Active with an attached stream and
\* a DATA frame arrives with END_STREAM set whose bytes are exactly one
\* complete length-prefixed message, the context emits exactly one
\* messageReceived with the payload, then exactly one finished with status Ok,
\* and the handler is deregistered from the channel's lists.
C1_WholeFrameWithEndStreamFinishes ==
    [][ \A h \in Ops :
          (/\ UnaryAwaitingResponse(h)
           /\ Event' = Sig(h, "dataReceived", PeerFrame, "END_STREAM"))
          => /\ ContextSignals(signals', h) =
                    << Sig(h, "messageReceived", PeerPayload, ""),
                       Sig(h, "finished", <<>>, "Ok") >>
             /\ ~Listed(h)' ]_vars

\* The response arrived whole and with END_STREAM at an Active handler, the
\* message was handed over, and the RPC is neither finished nor deregistered.
C1_Witness ==
    \E h \in Ops :
        /\ Event = Sig(h, "dataReceived", PeerFrame, "END_STREAM")
        /\ handler[h].life = "alive"
        /\ handler[h].m_handlerState = "Active"
        /\ handler[h].m_endStreamAtFirstData
        /\ ContextSignals(signals, h) = << Sig(h, "messageReceived", PeerPayload, "") >>
        /\ hist[h].ctxFinished = 0
        /\ h \in Range(m_activeHandlers)

\* An event that the transport, a timer, the event loop or the peer still owes
\* to RPC o: the socket is connecting, a posted call or a timer is pending, an
\* upload is under way, or the peer has neither ended nor reset the stream.
Owed(o) ==
    \/ socket = "Connecting"
    \/ reconnectTimer
    \/ operation[o].asyncError
    \/ \E h \in Ops : handler[h].life = "deleteLater"
    \/ /\ handler[o].life \in Live
       /\ \/ handler[o].m_deadlineTimer
          \/ handler[o].uploading
          \/ PeerMaySend(o) /\ hist[o].rst = 0

\* C2: every RPC issued through processOperation whose operation the user
\* keeps alive receives a finished event, given that the transport connects
\* or reports an error, timers fire, and the peer ends or resets every stream
\* that was not reset locally.  Stated for finite runs: once none of these
\* events is owed to the RPC any more, its operation has emitted finished.
C2_FinishedOnceNothingIsOwed ==
    \A o \in Ops :
        (operation[o].issued /\ operation[o].alive /\ ~Owed(o))
        => operation[o].isFinished /\ hist[o].userFinished > 0

\* The peer ended the stream of a live RPC and nothing is owed to it.
C2_Witness ==
    \E o \in Ops :
        /\ operation[o].alive /\ ~Owed(o)
        /\ handler[o].life = "alive" /\ handler[o].peerDone
        /\ ~operation[o].isFinished

\* C3: for each RPC the channel and its handler emit finished on the
\* operation context at most once, whatever the order of headers with
\* END_STREAM, data with END_STREAM, stream error, socket error, deadline
\* timeout and deferred errors.
C3_ContextFinishedAtMostOnce ==
    \A o \in Ops : hist[o].ctxFinished <= 1

\* The context of an RPC emitted finished a second time.
C3_Witness ==
    \E o \in Ops :
        /\ hist[o].ctxFinished = 2
        /\ ContextSignals(signals, o) # <<>>

\* C4: QGrpcOperation emits its finished signal at most once, whatever the
\* sequence of cancel() calls and finished emissions on the context, and
\* isFinished() is true from the first emission on and never turns false.
C4_OperationFinishedOnce ==
    [][ \A o \in Ops :
          /\ hist[o].userFinished' <= 1
          /\ (operation[o].alive' /\ hist[o].userFinished' > 0) => operation[o].isFinished'
          /\ (operation[o].alive' /\ operation[o].isFinished) => operation[o].isFinished' ]_vars

\* The context emitted finished twice and the user cancelled as well, and the
\* operation emitted finished once.
C4_Witness ==
    \E o \in Ops :
        /\ operation[o].alive /\ operation[o].isFinished
        /\ hist[o].ctxFinished = 2
        /\ hist[o].userFinished = 1
        /\ Event.sig = "cancel"

\* What was put on the stream of handler h in a signal log.
Sent(log, h, kinds) == SelectSeq(log, LAMBDA x : x.op = h /\ x.sig \in kinds)

\* C5: once a handler is Cancelled (by the user's cancel or by the deadline),
\* no messageReceived is emitted for a data frame that arrives afterwards,
\* and writeMessage enqueues nothing and submits no DATA frame.
C5_CancelledHandlerIsInert ==
    [][ \A h \in Ops :
          (handler[h].life \in Live /\ handler[h].m_handlerState = "Cancelled")
          => /\ Event'.sig = "dataReceived" /\ Event'.op = h
                  => ContextSignals(signals', h) = <<>>
             /\ Event'.sig = "writeMessage" /\ Event'.op = h
                  => /\ handler[h].m_queue' = handler[h].m_queue
                     /\ Sent(signals', h, {"DATA", "DATA+END_STREAM"}) = <<>> ]_vars

\* A whole message arrived at a Cancelled handler whose operation still lives.
C5_Witness ==
    \E h \in Ops :
        /\ Event = Sig(h, "dataReceived", PeerFrame, "")
        /\ handler[h].life = "alive"
        /\ handler[h].m_handlerState = "Cancelled"
        /\ operation[h].alive

\* The request of RPC h went out on its stream, the operation lives, and no
\* final status was reported to it.
AwaitingStatus(h) ==
    /\ operation[h].alive /\ ~operation[h].isFinished
    /\ handler[h].life = "alive"
    /\ handler[h].m_stream # "null"
    /\ handler[h].headersSent
    /\ hist[h].ctxFinished = 0

\* Moreover nothing of a response arrived, and nothing was cancelled or reset.
AwaitingResponse(h) ==
    /\ AwaitingStatus(h)
    /\ ~handler[h].peerDone
    /\ handler[h].m_expectedData = ExpectedData0
    /\ handler[h].m_handlerState # "Cancelled"
    /\ hist[h].rst = 0

\* C6: when the deadline timer of a handler with an attached stream fires and
\* no response, stream error or cancellation came before, the handler sends
\* RST_STREAM(CANCEL) exactly once and finished(DeadlineExceeded) is emitted;
\* no later timer tick or cancel request sends another RST_STREAM.
C6_DeadlineResetsOnce ==
    [][ \A h \in Ops :
          /\ (AwaitingResponse(h) /\ Event' = Sig(h, "deadlineTimer", <<>>, ""))
             => /\ Sent(signals', h, {"RST_STREAM"}) = << Sig(h, "RST_STREAM", <<>>, "CANCEL") >>
                /\ ContextSignals(signals', h) = << Sig(h, "finished", <<>>, "DeadlineExceeded") >>
          /\ hist[h].rst' <= 1 ]_vars

\* The deadline timer fired at a handler that awaited its response, and
\* nothing was sent or emitted.
C6_Witness ==
    \E h \in Ops :
        /\ signals = << Sig(h, "deadlineTimer", <<>>, "") >>
        /\ AwaitingResponse(h)

\* C7: a deadline covers the whole RPC, the final status included: when the
\* deadline timer fires for an RPC whose stream is attached and which has not
\* received its final status, the stream is reset and
\* finished(DeadlineExceeded) is reported, also after writesDone().
C7_DeadlineCoversWholeRpc ==
    [][ \A h \in Ops :
          (AwaitingStatus(h) /\ Event' = Sig(h, "deadlineTimer", <<>>, ""))
          => /\ Sent(signals', h, {"RST_STREAM"}) # <<>>
             /\ Sig(h, "finished", <<>>, "DeadlineExceeded") \in Range(signals') ]_vars

\* The deadline timer fired after writesDone() and the RPC goes on without a
\* status.
C7_Witness ==
    \E h \in Ops :
        /\ Event = Sig(h, "deadlineTimer", <<>>, "")
        /\ AwaitingStatus(h)
        /\ handler[h].m_handlerState = "Finished"
        /\ handler[h].m_deadlineTimer
        /\ hist[h].rst = 0

\* The RPCs issued by the latest step.
Issued == { o \in Ops : operation[o].issued }

\* C8: after a socket error with handlers registered, every handler is torn
\* down and removed from the active and the pending list and the channel state
\* is Error; the next processOperation call invokes the reconnection function
\* (through a posted call when it runs inside the error emission), queues the
\* new handler as pending and sets the state to Connecting.
C8_SocketErrorThenReconnect ==
    [][ /\ (/\ Event'.sig = "socketError"
            /\ m_activeHandlers \o m_pendingHandlers # <<>>)
           => /\ \A h \in Range(m_activeHandlers \o m_pendingHandlers) :
                    handler[h].life' = "deleted" /\ ~Listed(h)'
              /\ m_activeHandlers' = <<>>
              /\ ~m_connection'
              /\ IF Issued' = Issued
                 THEN m_pendingHandlers' = <<>> /\ m_state' = "Error"
                 ELSE /\ Range(m_pendingHandlers') = Issued' \ Issued
                      /\ m_state' = "Connecting"
                      /\ reconnectTimer'
        /\ (Event'.sig = "processOperation" /\ m_state = "Error")
           => /\ Sig(0, "reconnect", <<>>, "") \in Range(signals')
              /\ m_pendingHandlers' = << Event'.op >>
              /\ m_state' = "Connecting" ]_vars

\* The socket error met a handler that was deleted before, and the process
\* aborted with its lists as they were.
C8_Witness ==
    /\ crashed
    /\ Event.sig = "socketError"
    /\ m_activeHandlers # <<>>

Occurrences(list, h) == Cardinality({ i \in 1..Len(list) : list[i] = h })

\* C9: every handler created by processOperation is in exactly one of the
\* pending list, the active list, or deleted (destroyed or scheduled for
\* deletion); no deleted handler is referenced from a list, no handler is in
\* both lists or twice in one.
C9_HandlerInExactlyOnePlace ==
    \A h \in Ops :
        handler[h].life # "none"
        => \/ /\ handler[h].life = "alive"
              /\ Occurrences(m_pendingHandlers, h) = 1
              /\ Occurrences(m_activeHandlers, h) = 0
           \/ /\ handler[h].life = "alive"
              /\ Occurrences(m_pendingHandlers, h) = 0
              /\ Occurrences(m_activeHandlers, h) = 1
           \/ /\ handler[h].life \in {"deleteLater", "deleted"}
              /\ Occurrences(m_pendingHandlers, h) = 0
              /\ Occurrences(m_activeHandlers, h) = 0

\* The socket connected after the user dropped a pending RPC: its handler is
\* destroyed and listed as active.
C9_Witness ==
    \E h \in Ops :
        /\ Event.sig = "connected"
        /\ handler[h].life = "deleted"
        /\ h \in Range(m_activeHandlers)

\* How many of the messages ms lie completely within the first n bytes.
RECURSIVE Complete(_, _)
Complete(ms, n) ==
    IF ms = <<>> \/ Len(frame(Head(ms))) > n THEN 0
    ELSE 1 + Complete(Tail(ms), n - Len(frame(Head(ms))))

\* C10: for framed messages that reach the data-received callback of a handler
\* that is not cancelled, cut into DATA frames at arbitrary byte boundaries,
\* the messageReceived payloads are exactly the messages that arrived
\* completely, in wire order and once each, and the bytes of an incomplete
\* last message stay in the buffer.
C10_ReassemblyInWireOrder ==
    wire # <<>> =>
        LET k    == Complete(wire, wirePos)
            done == Len(WireBytes(SubSeq(wire, 1, k)))
        IN  /\ received = SubSeq(wire, 1, k)
            /\ handler[1].m_expectedData.container =
                   SubSeq(WireBytes(wire), done + 1, wirePos)

\* One DATA frame held two whole messages and a part of a third: the two
\* were handed over in order and the part is buffered.
C10_Witness ==
    /\ Len(wire) = 3
    /\ Event.sig = "dataReceived"
    /\ Len(Event.data) = wirePos
    /\ Complete(wire, wirePos) = 2
    /\ received = SubSeq(wire, 1, 2)
    /\ Messages(signals) = SubSeq(wire, 1, 2)
    /\ handler[1].m_expectedData.container # <<>>
    /\ wire[1] # wire[2]

\* C11: for any payload P, the empty one included, writeMessage frames P as
\* one zero byte, the four bytes of the big-endian length of P, then P; when
\* that frame is fed to the receiving side, the expected size is computed as
\* Len(P) + 5 and exactly one message comes out, equal to P.
C11_FrameRoundTrip ==
    sent # <<>> =>
        LET P == wire[1]
        IN  /\ sent = << 0, 0, (Len(P) \div 65536) % 256, (Len(P) \div 256) % 256,
                          Len(P) % 256 >> \o P
            /\ updateExpectedSize([expectedSize |-> 0, container |-> sent]).ed.expectedSize
                   = Len(P) + 5
            /\ IF wirePos = Len(sent)
               THEN /\ received = << P >>
                    /\ handler[1].m_expectedData = ExpectedData0
               ELSE /\ received = <<>>
                    /\ wirePos >= GrpcMessageSizeHeaderSize
                           => handler[1].m_expectedData.expectedSize = Len(P) + 5

\* The longest message went out, came back in more than one DATA frame, and
\* was handed over.
C11_Witness ==
    /\ sent # <<>>
    /\ Len(wire[1]) = MaxPayload
    /\ wirePos = Len(sent)
    /\ received = << wire[1] >>
    /\ Event.sig = "dataReceived"
    /\ 0 < Len(Event.data) /\ Len(Event.data) < Len(sent)

Frames == {"HEADERS", "DATA", "DATA+END_STREAM", "RST_STREAM"}

\* C12: cancel() on a handler that is Finished, already Cancelled, or without
\* a stream returns false, sends neither RST_STREAM nor any other frame, and
\* leaves the handler state and the deadline timer as they were.  cancel() is
\* reached through cancelRequested and through the deadline timer, which
\* reports DeadlineExceeded only when cancel() returned true.
C12_RefusedCancelChangesNothing ==
    [][ \A h \in Ops :
          (/\ handler[h].life \in Live
           /\ handler[h].m_handlerState # "Active" \/ handler[h].m_stream = "null"
           /\ Event'.op = h
           /\ Event'.sig \in {"cancel", "deadlineTimer"})
          => /\ ~cancel(World, h).ret
             /\ Sent(signals', h, Frames) = <<>>
             /\ hist[h].rst' = hist[h].rst
             /\ handler[h].m_handlerState' = handler[h].m_handlerState
             /\ handler[h].m_deadlineTimer' = handler[h].m_deadlineTimer
             /\ handler[h].m_stream' = handler[h].m_stream
             /\ Event'.sig = "deadlineTimer" => ContextSignals(signals', h) = <<>> ]_vars

\* The user cancelled after writesDone(): cancelRequested reached a Finished
\* handler with an open stream and a running deadline timer.
C12_Witness ==
    \E h \in Ops :
        /\ Event = Sig(h, "cancel", <<>>, "")
        /\ Sig(h, "cancelRequested", <<>>, "") \in Range(signals)
        /\ handler[h].life = "alive"
        /\ handler[h].m_handlerState = "Finished"
        /\ handler[h].m_stream \in {"Open", "HalfClosedLocal"}
        /\ handler[h].m_deadlineTimer

\* C13: writesDone() on an Active handler whose send side is not closed moves
\* the handler to Finished and enqueues exactly one empty frame, and the empty
\* frame goes to the stream as a DATA frame with END_STREAM as soon as the
\* queue is drained up to it; on a handler that is not Active it does nothing;
\* when the send side is half-closed or closed it enqueues nothing.
C13_WritesDoneHalfCloses ==
    [][ \A h \in Ops :
          /\ (Event' = Sig(h, "writesDone", <<>>, "") /\ handler[h].life \in Live)
             => IF handler[h].m_handlerState # "Active"
                THEN handler[h]' = handler[h] /\ Len(signals') = 1
                ELSE /\ handler[h].m_handlerState' = "Finished"
                     /\ IF isStreamClosedForSending(World, h)
                        THEN /\ handler[h].m_queue' = handler[h].m_queue
                             /\ Sent(signals', h, Frames) = <<>>
                        ELSE LET q == Append(handler[h].m_queue, <<>>)
                             IN  IF handler[h].m_stream = "null" \/ handler[h].uploading
                                 THEN /\ handler[h].m_queue' = q
                                      /\ Sent(signals', h, Frames) = <<>>
                                 ELSE /\ handler[h].m_queue' = Tail(q)
                                      /\ Sent(signals', h, Frames) =
                                            << Sig(h, IF Head(q) = <<>>
                                                         \/ handler[h].m_endStreamAtFirstData
                                                      THEN "DATA+END_STREAM" ELSE "DATA",
                                                   Head(q), "") >>
          /\ (/\ Event' = Sig(h, "uploadFinished", <<>>, "")
              /\ handler[h].life \in Live
              /\ handler[h].m_queue # <<>>
              /\ Head(handler[h].m_queue) = <<>>)
             => Sent(signals', h, Frames) = << Sig(h, "DATA+END_STREAM", <<>>, "") >>
          /\ Sig(h, "DATA", <<>>, "") \notin Range(signals') ]_vars

\* writesDone() met an Active handler of a client or bidirectional stream
\* with a free stream: the handler is Finished, and the empty frame went out
\* with END_STREAM.
C13_Witness ==
    \E h \in Ops :
        /\ signals = << Sig(h, "writesDone", <<>>, ""), Sig(h, "DATA+END_STREAM", <<>>, "") >>
        /\ handler[h].life = "alive"
        /\ ~handler[h].m_endStreamAtFirstData
        /\ handler[h].m_handlerState = "Finished"
        /\ handler[h].m_queue = <<>>

\* C14: the state of a handler changes only from Active to Cancelled or from
\* Active to Finished; a Cancelled or Finished handler keeps its state under
\* every cancel, writesDone, writeMessage, deadline timeout and inbound
\* headers, data and error event.
C14_HandlerStateIsTerminal ==
    [][ \A h \in Ops :
          (/\ handler[h].life \in Live
           /\ handler[h].life' \in Live
           /\ handler[h].m_handlerState' # handler[h].m_handlerState)
          => /\ handler[h].m_handlerState = "Active"
             /\ handler[h].m_handlerState' \in {"Cancelled", "Finished"} ]_vars

\* writesDone() was requested of a Cancelled handler, which stays Cancelled.
C14_Witness ==
    \E h \in Ops :
        /\ Event = Sig(h, "writesDone", <<>>, "")
        /\ handler[h].life = "alive"
        /\ handler[h].m_handlerState = "Cancelled"

\* C15: when a stream is attached, the deadline timer is started with the
\* deadline of the call if the call has one, else with the deadline of the
\* channel if the channel has one, and is not started when neither is set;
\* a handler without a stream never has a running timer, and the timer is
\* started by no step but the one that attaches the stream.
C15_DeadlineArmedAtAttachment ==
    [][ \A h \in Ops :
          /\ (handler[h].m_stream = "null" /\ handler[h].m_stream' # "null")
             => /\ handler[h].interval' =
                       (IF operation[h].callDeadline' THEN "call"
                        ELSE IF channelDeadline' THEN "channel"
                        ELSE "none")
                /\ handler[h].m_deadlineTimer' = (handler[h].interval' # "none")
          /\ handler[h].m_stream' = "null" => ~handler[h].m_deadlineTimer'
          /\ (~handler[h].m_deadlineTimer /\ handler[h].m_deadlineTimer')
             => handler[h].m_stream = "null" /\ handler[h].m_stream' # "null" ]_vars

\* The socket connected for a pending RPC whose call and whose channel both
\* carry a deadline: the timer runs with the deadline of the call.
C15_Witness ==
    \E h \in Ops :
        /\ Event.sig = "connected"
        /\ operation[h].callDeadline /\ channelDeadline
        /\ handler[h].m_stream # "null"
        /\ handler[h].m_deadlineTimer
        /\ handler[h].interval = "call"

\* The request of RPC o is not on a stream after a step that should have put
\* it there: no handler was made, or the channel has a connection and the
\* handler's HEADERS did not go out.
FailedEarly(o) ==
    \/ handler[o].life = "none"
    \/ /\ handler[o].life = "alive"
       /\ m_connection
       /\ ~handler[o].headersSent

C17_SocketErrorTearsDownAll ==
    [][ Event'.sig = "socketError"
        => /\ \A h \in Range(m_activeHandlers \o m_pendingHandlers) :
                  handler[h].life' = "deleted"
           /\ m_activeHandlers' = <<>>
           /\ ~m_connection'
           /\ IF Issued' = Issued
              THEN m_pendingHandlers' = <<>> /\ m_state' = "Error"
              ELSE Range(m_pendingHandlers') = Issued' \ Issued
           /\ \A o \in Range(errorObservers) :
                  Sig(o, "finished", <<>>, "Unavailable") \in Range(signals') ]_vars

\* The socket error met a handler that was deleted before and the process
\* aborted: an RPC that is alive and registered got no status.
C17_Witness ==
    /\ crashed
    /\ Event.sig = "socketError"
    /\ \E o \in Range(errorObservers) :
           /\ operation[o].alive /\ ~operation[o].isFinished
           /\ handler[o].life = "alive"
           /\ Sig(o, "finished", <<>>, "Unavailable") \notin Range(signals)

\* C18: a stream error on one RPC finishes only that RPC, with the status
\* its error code maps to, and deregisters only its handler: the connection
\* state of the channel, its HTTP/2 connection, the pending list, and every
\* other handler (state, outbound queue, reassembly buffer) and operation
\* are unchanged.
C18_StreamErrorIsLocal ==
    [][ \A h \in Ops :
          (Event'.sig = "errorOccurred" /\ Event'.op = h)
          => LET code   == Event'.data[1]
                 status == CASE code = 7 -> "Unavailable"
                             [] code = 8 -> "Cancelled"
                             [] code = 2 -> "Internal"
             IN  /\ ContextSignals(signals', h) =
                        (IF operation[h].alive THEN << Sig(h, "finished", <<>>, status) >>
                         ELSE <<>>)
                 /\ m_activeHandlers' = SelectSeq(m_activeHandlers, LAMBDA x : x # h)
                 /\ h \in Range(m_activeHandlers)
                 /\ handler[h].life' = "deleteLater"
                 /\ m_pendingHandlers' = m_pendingHandlers
                 /\ m_state' = m_state
                 /\ m_connection' = m_connection
                 /\ socket' = socket
                 /\ \A o \in Ops \ {h} :
                        /\ handler[o]' = handler[o]
                        /\ operation[o]' = operation[o]
                        /\ \A i \in 1..Len(signals') : signals'[i].op # o ]_vars

\* The stream of the second of two registered RPCs failed; the first, whose
\* request still sits in its queue, is registered as before.
C18_Witness ==
    \E h \in Ops, o \in Ops :
        /\ o # h
        /\ Event = Sig(h, "errorOccurred", <<7>>, "")
        /\ Sig(h, "finished", <<>>, "Unavailable") \in Range(signals)
        /\ handler[h].life = "deleteLater"
        /\ m_activeHandlers = << o >>
        /\ handler[o].life = "alive"
        /\ handler[o].m_queue # <<>>
        /\ operation[o].alive /\ ~operation[o].isFinished

\* The header lists of the request of RPC h: the one its handler holds until
\* it is sent, and those handed to sendHEADERS in the latest step.
RequestHeaders(h) ==
    (IF handler[h].life \in Live /\ handler[h].m_initialHeaders # <<>>
     THEN { handler[h].m_initialHeaders } ELSE {})
        \cup { signals[i].data : i \in { j \in 1..Len(signals) :
                                          signals[j].op = h /\ signals[j].sig = "HEADERS" } }

Reserved == { ":authority", ":method", ":path", ":scheme", "content-type" }

\* C19: when the metadata of the channel and the metadata of the call both
\* set the same key, the value of the call wins: the initial headers of the
\* request carry the value of the call for that key and not the value of the
\* channel (channel {x:1} and call {x:2} give x:2).
C19_CallMetadataWins ==
    \A h \in Ops : \A hs \in RequestHeaders(h) :
        \A c \in Range(channelOptions.metadata), m \in Range(operation[h].callMetadata) :
            (c.key = m.key /\ toLower(m.key) \notin Reserved /\ c.value # m.value)
            => /\ [name |-> toLower(m.key), value |-> m.value] \in Range(hs)
               /\ [name |-> toLower(c.key), value |-> c.value] \notin Range(hs)

\* A channel with metadata {x:1} sent the HEADERS of a call with metadata
\* {x:2}: they carry x:1 and, after it, x:2.
C19_Witness ==
    \E h \in Ops : \E i \in 1..Len(signals) :
        /\ channelOptions.metadata = << [key |-> "x", value |-> "1"] >>
        /\ operation[h].callMetadata = << [key |-> "x", value |-> "2"] >>
        /\ signals[i].op = h /\ signals[i].sig = "HEADERS"
        /\ SelectSeq(signals[i].data, LAMBDA f : f.name = "x")
               = << [name |-> "x", value |-> "1"], [name |-> "x", value |-> "2"] >>

\* The content-type headers of a header list.
ContentTypeOf(hs) == SelectSeq(hs, LAMBDA f : f.name = "content-type")

\* C20: when the channel options set a serialization format other than the
\* default and their metadata set a content-type that disagrees with it, the
\* constructor produces a warning and resolves the content type to
\* application/grpc+<suffix of the format>, and no request carries the value
\* of the metadata as its content-type header.
C20_ConfiguredFormatWins ==
    [][ LET format   == channelOptions.serializationFormat
            expected == DefaultContentType \o "+" \o format
        IN  (/\ format # ""
             /\ \E c \in Range(channelOptions.metadata) :
                    c.key = "content-type" /\ c.value # expected)
            => /\ Event'.sig = "QGrpcHttp2Channel"
                     => /\ Sig(0, "qGrpcWarning", <<>>, FormatConflict) \in Range(signals')
                        /\ m_contentType' = expected
                        /\ channelOptions' = channelOptions
               /\ \A h \in Ops : \A hs \in RequestHeaders(h)' :
                     ContentTypeOf(hs) = << [name |-> "content-type", value |-> expected] >> ]_vars

\* A channel made with the JSON format and the metadata content-type
\* application/grpc+proto sent the HEADERS of a call as application/grpc+json.
C20_Witness ==
    \E h \in Ops : \E i \in 1..Len(signals) :
        /\ channelOptions.serializationFormat = "json"
        /\ [key |-> "content-type", value |-> "application/grpc+proto"]
               \in Range(channelOptions.metadata)
        /\ m_contentType = "application/grpc+json"
        /\ signals[i].op = h /\ signals[i].sig = "HEADERS"
        /\ ContentTypeOf(signals[i].data)
               = << [name |-> "content-type", value |-> "application/grpc+json"] >>

C22_CancelEmitsOnce ==
    [][ \A o \in Ops :
          Event' = Sig(o, "cancel", <<>>, "")
          => IF ~operation[o].isFinished
             THEN /\ SelectSeq(signals', LAMBDA x :
                         x.sig \in {"cancelRequested", "QGrpcOperation::finished", "finished"})
                       = << Sig(o, "cancelRequested", <<>>, ""),
                            Sig(o, "QGrpcOperation::finished", <<>>, "Cancelled") >>
                  /\ operation[o].isFinished'
             ELSE /\ Len(signals') = 1
                  /\ operation' = operation
                  /\ handler' = handler ]_vars

\* The user cancelled an unfinished RPC whose request was on its stream:
\* cancelRequested reset the stream, then the operation emitted
\* finished(Cancelled).
C22_Witness ==
    \E o \in Ops :
        /\ signals = << Sig(o, "cancel", <<>>, ""),
                        Sig(o, "cancelRequested", <<>>, ""),
                        Sig(o, "RST_STREAM", <<>>, "CANCEL"),
                        Sig(o, "QGrpcOperation::finished", <<>>, "Cancelled") >>
        /\ operation[o].isFinished
        /\ handler[o].m_handlerState = "Cancelled"

\* The user discarded the operation of RPC h, whose handler is registered
\* with a stream attached.
Discarded(h) ==
    /\ operation[h].issued /\ ~operation[h].alive
    /\ handler[h].life = "alive"
    /\ handler[h].m_stream # "null"
    /\ h \in Range(m_activeHandlers)

\* C23: if the user discards the operation while its handler is registered
\* with an attached stream, the handler does not leak: once the stream reports
\* its end (through headers or data with END_STREAM) or a stream error, the
\* handler is removed from the active list and scheduled for deletion, and
\* nothing is reported to the discarded operation.
C23_DiscardedOperationFreesHandler ==
    [][ \A h \in Ops :
          (/\ Discarded(h)
           /\ Event'.op = h
           /\ \/ Event'.sig \in {"headersReceived", "dataReceived"} /\ Event'.status = "END_STREAM"
              \/ Event'.sig = "errorOccurred")
          => /\ h \notin Range(m_activeHandlers')
             /\ handler[h].life' = "deleteLater"
             /\ ContextSignals(signals', h) = <<>>
             /\ Sent(signals', h, {"QGrpcOperation::finished"}) = <<>> ]_vars

\* The peer ended the stream of a discarded RPC with a header frame, and the
\* handler is still alive in the active list.
C23_Witness ==
    \E h \in Ops :
        /\ \E headers \in HeaderLists :
               signals = << [Sig(h, "headersReceived", <<>>, "END_STREAM")
                                 EXCEPT !.headers = headers] >>
        /\ Discarded(h)
        /\ handler[h].peerDone

C25_ActiveHandlersHaveStreams ==
    /\ \A h \in Range(m_activeHandlers) :
          handler[h].life = "alive" => handler[h].m_stream # "null"
    /\ \A h \in Range(m_pendingHandlers) :
          handler[h].life = "alive" => handler[h].m_stream = "null"

\* processOperation met a connection that could create no stream: the new
\* handler is in the active list without a stream, its error posted.
C25_Witness ==
    \E h \in Ops :
        /\ Event = Sig(h, "processOperation", <<>>, "")
        /\ m_connection
        /\ h \in Range(m_activeHandlers)
        /\ handler[h].life = "alive"
        /\ handler[h].m_stream = "null"
        /\ operation[h].asyncError

\* C26: when the transport connects, a pending handler whose operation has
\* expired is discarded: no stream is created and no HEADERS or DATA frame is
\* ever sent for it, while every pending handler whose operation lives gets
\* its initial request sent, in the order the handlers were queued (a request
\* that cannot be sent is reported by a posted error).
C26_ExpiredPendingIsDiscarded ==
    [][ /\ Event'.sig = "connected"
           => /\ \A h \in Range(m_pendingHandlers) :
                    IF ~operation[h].alive
                    THEN /\ handler[h].life' = "deleted"
                         /\ handler[h].m_stream' = "null"
                         /\ Sent(signals', h, Frames) = <<>>
                    ELSE /\ handler[h].life' = "alive"
                         /\ \/ /\ handler[h].headersSent'
                               /\ Sent(signals', h, {"HEADERS"}) # <<>>
                            \/ operation[h].asyncError'
              /\ LET headers == SelectSeq(signals', LAMBDA x : x.sig = "HEADERS")
                 IN  [i \in 1..Len(headers) |-> headers[i].op]
                        = SelectSeq(m_pendingHandlers, LAMBDA h : handler[h].headersSent')
        /\ \A h \in Ops :
              handler[h].life = "deleted"
              => /\ handler[h].life' = "deleted"
                 /\ Sent(signals', h, Frames) = <<>> ]_vars

\* The socket connected with two handlers pending, the first of them of a
\* destroyed operation: it was deleted, and the request of the second went out.
C26_Witness ==
    /\ Event.sig = "connected"
    /\ handler[1].life = "deleted"
    /\ ~operation[1].alive
    /\ Sent(signals, 1, Frames) = <<>>
    /\ handler[2].life = "alive" /\ handler[2].headersSent
    /\ Sent(signals, 2, {"HEADERS"}) # <<>>

\* C27: when processOperation is called while the state is Connected and the
\* socket is not writable, no handler is created, no observer of socket
\* errors is registered, the pending list, the active list and the connection
\* state are unchanged, no reconnect is triggered, and the operation receives
\* exactly one finished(Unavailable), in a later turn of the event loop.
C27_UnwritableSocketFailsFast ==
    [][ \A o \in Ops :
          /\ (/\ Event' = Sig(o, "processOperation", <<>>, "")
              /\ m_state = "Connected"
              /\ socket \notin {"Connecting", "Connected"})
             => /\ handler' = handler
                /\ handler[o].life' = "none"
                /\ errorObservers' = errorObservers
                /\ m_pendingHandlers' = m_pendingHandlers
                /\ m_activeHandlers' = m_activeHandlers
                /\ m_state' = m_state /\ m_connection' = m_connection /\ socket' = socket
                /\ reconnectTimer' = reconnectTimer
                /\ Len(signals') = 1
                /\ operation[o].asyncError'
                /\ hist[o].ctxFinished' = 0
          /\ (operation[o].issued /\ operation[o].alive' /\ handler[o].life = "none")
             => /\ handler[o].life' = "none"
                /\ o \notin Range(errorObservers')
                /\ IF Event' = Sig(o, "asyncErrorTimer", <<>>, "")
                   THEN /\ operation[o].asyncError /\ ~operation[o].asyncError'
                        /\ ContextSignals(signals', o) = << Sig(o, "finished", <<>>, "Unavailable") >>
                        /\ hist[o].ctxFinished = 0 /\ hist[o].ctxFinished' = 1
                   ELSE /\ ContextSignals(signals', o) = <<>>
                        /\ operation[o].asyncError' = operation[o].asyncError
                        /\ hist[o].ctxFinished' = hist[o].ctxFinished
                        /\ hist[o].ctxFinished' = (IF operation[o].asyncError' THEN 0 ELSE 1) ]_vars

\* An RPC was issued on a channel whose socket had been closed while the
\* state was Connected; in a later turn its posted error fired.
C27_Witness ==
    \E o \in Ops :
        /\ signals = << Sig(o, "asyncErrorTimer", <<>>, ""),
                        Sig(o, "finished", <<>>, "Unavailable"),
                        Sig(o, "QGrpcOperation::finished", <<>>, "Unavailable") >>
        /\ handler[o].life = "none"
        /\ m_state = "Connected" /\ socket = "Closed"
        /\ o \notin Range(errorObservers)
        /\ hist[o].ctxFinished = 1

\* How often m_reconnectFunction was invoked in a signal log.
Reconnects(log) == Len(SelectSeq(log, LAMBDA x : x.sig = "reconnect"))

\* C28: the reconnection function is never invoked by the handling of a
\* transport error; after a transport error it is invoked exactly once, by
\* the first processOperation call that follows (which sets the state to
\* Connecting), and not by further processOperation calls made before the
\* next transport error.  Stated per step: a socket error invokes nothing and
\* alone sets the state to Error; processOperation in state Error leaves the
\* state Connecting with the function invoked once, either inline or through
\* the one call it posted; in any other state it invokes and posts nothing.
C28_ReconnectOncePerError ==
    [][ /\ Event'.sig = "socketError" => Reconnects(signals') = 0
        /\ (m_state # "Error" /\ m_state' = "Error")
              => Event'.sig = "socketError" /\ Issued' = Issued
        /\ (Event'.sig = "socketError" /\ ~crashed') => m_state' = (IF Issued' = Issued THEN "Error" ELSE "Connecting")
        /\ Event'.sig = "processOperation"
              => IF m_state = "Error"
                 THEN /\ m_state' = "Connecting"
                      /\ Reconnects(signals') = 1
                      /\ reconnectTimer' = reconnectTimer
                 ELSE /\ m_state' = m_state
                      /\ Reconnects(signals') = 0
                      /\ reconnectTimer' = reconnectTimer
        /\ (~reconnectTimer /\ reconnectTimer')
              => Event'.sig = "socketError" /\ Issued' # Issued /\ m_state' = "Connecting"
        /\ Event'.sig = "reconnectTimer"
              => reconnectTimer /\ ~reconnectTimer' /\ Reconnects(signals') = 1
        /\ Event'.sig \notin {"processOperation", "reconnectTimer"} => Reconnects(signals') = 0
        /\ ~(m_state' = "Error" /\ reconnectTimer') ]_vars

\* A socket error tore down the first RPC; the processOperation call of the
\* second found the state Error, reconnected, and left the state Connecting.
C28_Witness ==
    /\ signals = << Sig(2, "processOperation", <<>>, ""), Sig(0, "reconnect", <<>>, "") >>
    /\ m_state = "Connecting" /\ socket = "Connecting"
    /\ m_pendingHandlers = <<2>>
    /\ handler[1].life = "deleted"
    /\ operation[1].isFinished

LastValue(headers, name) ==
    headers[CHOOSE i \in 1..Len(headers) :
                /\ headers[i].name = name
                /\ \A j \in (i + 1)..Len(headers) : headers[j].name # name].value

Names(headers) == { headers[i].name : i \in 1..Len(headers) }

\* The status a header frame carries: Ok and no message when it names none.
FrameStatus(headers) ==
    IF "grpc-status" \in Names(headers)
    THEN StatusCodeOf(toShort(LastValue(headers, "grpc-status"))) ELSE "Ok"

FrameMessage(headers) ==
    IF "grpc-message" \in Names(headers)
    THEN LastValue(headers, "grpc-message") ELSE <<>>

\* C30: when a header frame arrives for an operation the user still holds,
\* every header of the frame is merged into the server metadata of the
\* operation (a name that was there takes the new value, the other entries
\* stay). If the frame carries END_STREAM, finished is emitted once with the
\* grpc-status and grpc-message of that frame (Ok and empty when absent)
\* unless the handler is Cancelled, in which case nothing is emitted; in both
\* cases the handler leaves the active list and is scheduled for deletion. A
\* header frame without END_STREAM emits no finished and leaves the handler
\* registered as it was.
C30_HeadersMergeAndFinish ==
    [][ \A h \in Ops :
          (/\ operation[h].alive
           /\ Event'.op = h
           /\ Event'.sig = "headersReceived")
          => LET headers == Event'.headers
             IN  /\ operation[h].serverMetadata' =
                        { e \in operation[h].serverMetadata : e.name \notin Names(headers) }
                        \cup { [name |-> n, value |-> LastValue(headers, n)] : n \in Names(headers) }
                 /\ Event'.status = "END_STREAM"
                    => /\ ContextSignals(signals', h) =
                              IF handler[h].m_handlerState = "Cancelled" THEN <<>>
                              ELSE << Sig(h, "finished", FrameMessage(headers), FrameStatus(headers)) >>
                       /\ h \notin Range(m_activeHandlers')
                       /\ handler[h].life' = "deleteLater"
                 /\ Event'.status # "END_STREAM"
                    => /\ ContextSignals(signals', h) = <<>>
                       /\ m_activeHandlers' = m_activeHandlers
                       /\ handler[h].life' = handler[h].life ]_vars

\* The peer first sent a header frame with status 13 and a message, without
\* END_STREAM, and then ended the stream with a header frame of status 0: the
\* metadata holds the new status next to the old message, and finished
\* carries Ok without a message.
C30_Witness ==
    \E h \in Ops :
        /\ signals = << [Sig(h, "headersReceived", <<>>, "END_STREAM")
                            EXCEPT !.headers = << [name |-> "grpc-status", value |-> <<48>>] >>],
                        Sig(h, "finished", <<>>, "Ok"),
                        Sig(h, "QGrpcOperation::finished", <<>>, "Ok") >>
        /\ operation[h].alive
        /\ operation[h].serverMetadata =
               { [name |-> "grpc-status", value |-> <<48>>],
                 [name |-> "grpc-message", value |-> <<98, 111, 111, 109>>] }
        /\ h \notin Range(m_activeHandlers)
        /\ handler[h].life = "deleteLater"

\* The channel of SpecChannel with what the event loop guarantees: a posted
\* deletion, a posted error report and the posted reconnect do run.  Nothing
\* is assumed of the peer, of the socket or of the user.
SpecChannelFair ==
    /\ SpecChannel
    /\ \A h \in Ops : WF_vars(DeferredDelete(h))
    /\ \A o \in Ops : WF_vars(AsyncError(o))
    /\ WF_vars(DeferredReconnect)

\* cancel() of the handler succeeded: Cancelled, RST_STREAM sent.
CancelSucceeded(h) ==
    /\ handler[h].life = "alive"
    /\ handler[h].m_handlerState = "Cancelled"
    /\ handler[h].m_stream = "Closed"
    /\ hist[h].rst > 0

\* C31: a handler whose cancel() succeeded (Cancelled, RST_STREAM sent) is
\* eventually out of the active list and destroyed, also when the peer sends
\* nothing more on the stream and the socket does not fail.
C31_CancelledHandlerIsFreed ==
    \A h \in Ops :
        CancelSucceeded(h) ~> (h \notin Range(m_activeHandlers) /\ handler[h].life \notin Live)

\* The user cancelled a call whose request was sent: the handler is
\* Cancelled in the active list, the operation got finished(Cancelled), and
\* no deletion is posted.
C31_Witness ==
    \E h \in Ops :
        /\ signals = << Sig(h, "cancel", <<>>, ""),
                        Sig(h, "cancelRequested", <<>>, ""),
                        Sig(h, "RST_STREAM", <<>>, "CANCEL"),
                        Sig(h, "QGrpcOperation::finished", <<>>, "Cancelled") >>
        /\ CancelSucceeded(h)
        /\ h \in Range(m_activeHandlers)
        /\ \A g \in Ops : handler[g].life # "deleteLater"
        /\ ~reconnectTimer
        /\ \A o \in Ops : ~operation[o].asyncError

\* The entries of a metadata list whose key is none of the reserved names,
\* whatever its case.
Free(metadata) == SelectSeq(metadata, LAMBDA m : toLower(m.key) \notin Reserved)

\* C32: for any metadata of the channel and of the call, a key that equals
\* :authority, :method, :path, :scheme or content-type without regard to case
\* is not copied into the initial headers: each of the five headers occurs
\* exactly once, with the value the channel computed; every other key of the
\* metadata is in the headers once per entry, lower-cased, with its value.
C32_ReservedHeadersAreTheChannels ==
    \A h \in Ops : \A hs \in RequestHeaders(h) :
        LET free == Free(channelOptions.metadata) \o Free(operation[h].callMetadata)
        IN  /\ \A r \in Reserved : Cardinality({ i \in 1..Len(hs) : hs[i].name = r }) = 1
            /\ { f \in Range(hs) : f.name \in Reserved } =
                   { [name |-> ":authority", value |-> "authority"],
                     [name |-> ":method", value |-> "POST"],
                     [name |-> ":path", value |-> "/service/method"],
                     [name |-> ":scheme", value |-> "http"],
                     [name |-> "content-type", value |-> m_contentType] }
            /\ \A f \in Range(hs) : f.name \notin { "X", "Content-Type", ":Path" }
            /\ Len(hs) = 9 + Len(free)
            /\ \A i \in 1..Len(free) :
                   /\ hs[9 + i].value = free[i].value
                   /\ hs[9 + i].name = toLower(free[i].key)
                   /\ hs[9 + i].name \notin Reserved

\* A channel whose metadata set Content-Type sent the HEADERS of a call whose
\* metadata set :Path and X: the request carries the nine headers of the
\* channel and x: 4.
C32_Witness ==
    \E h \in Ops : \E i \in 1..Len(signals) :
        /\ channelOptions.metadata =
               << [key |-> "Content-Type", value |-> "application/grpc+proto"] >>
        /\ operation[h].callMetadata =
               << [key |-> ":Path", value |-> "/other"], [key |-> "X", value |-> "4"] >>
        /\ signals[i].op = h /\ signals[i].sig = "HEADERS"
        /\ Len(signals[i].data) = 10
        /\ signals[i].data[10] = [name |-> "x", value |-> "4"]
        /\ signals[i].data[3] = [name |-> ":path", value |-> "/service/method"]

\* The status of each HTTP/2 error code: protocol 1, internal 2, flow control
\* 3, settings timeout 4, stream closed 5, frame size 6, refused stream 7,
\* cancel 8, compression 9, connect 10, enhance your calm 11, inadequate
\* security 12, HTTP/1.1 required 13.
StatusOfStreamError(c) ==
    IF c \in {1, 2, 3, 4, 5, 6, 9, 10} THEN "Internal"
    ELSE IF c = 7 THEN "Unavailable"
    ELSE IF c = 8 THEN "Cancelled"
    ELSE IF c = 11 THEN "ResourceExhausted"
    ELSE IF c = 12 THEN "PermissionDenied"
    ELSE IF c = 13 THEN "Unknown"
    ELSE "Internal"

\* C33: a stream error with HTTP/2 error code c finishes the RPC with the
\* status of that code (Internal for protocol, internal, flow-control,
\* settings-timeout, stream-closed, frame-size, compression and connect
\* errors, Unavailable for refused-stream, Cancelled for cancel,
\* ResourceExhausted for enhance-your-calm, PermissionDenied for
\* inadequate-security, Unknown for HTTP/1.1-required, Internal for every
\* other code), and the error callback fires at most once per stream: an
\* error the stream reports after its first one emits nothing and changes
\* nothing.
C33_StreamErrorStatus ==
    [][ \A h \in Ops :
          (Event'.op = h /\ Event'.sig = "errorOccurred")
          => IF handler[h].streamErrors = 0
             THEN /\ ContextSignals(signals', h) =
                        IF operation[h].alive
                        THEN << Sig(h, "finished", <<>>, StatusOfStreamError(Event'.data[1])) >>
                        ELSE <<>>
                  /\ h \notin Range(m_activeHandlers')
                  /\ handler[h].life' = "deleteLater"
             ELSE /\ Len(signals') = 1
                  /\ m_activeHandlers' = m_activeHandlers
                  /\ operation' = operation
                  /\ handler[h].life' = handler[h].life ]_vars

\* The stream of an RPC the user holds failed with enhance-your-calm: the
\* RPC finished with ResourceExhausted, and the handler is out of the active
\* list with its deletion posted.
C33_Witness ==
    \E h \in Ops :
        /\ signals = << Sig(h, "errorOccurred", <<11>>, ""),
                        Sig(h, "finished", <<>>, "ResourceExhausted"),
                        Sig(h, "QGrpcOperation::finished", <<>>, "ResourceExhausted") >>
        /\ handler[h].streamErrors = 1
        /\ handler[h].life = "deleteLater"
        /\ h \notin Range(m_activeHandlers)

\* What is left of `bytes` when the messages ms are taken from its front,
\* each as five bytes of header that announce its length and the payload;
\* <<-1>> when the front of `bytes` is not these messages.
RECURSIVE Dropped(_, _)
Dropped(bytes, ms) ==
    IF ms = <<>> THEN bytes
    ELSE IF Len(bytes) < 5 THEN <<-1>>
    ELSE LET size == 5 + bytes[2] * 16777216 + bytes[3] * 65536 + bytes[4] * 256 + bytes[5]
         IN  IF Len(bytes) >= size /\ SubSeq(bytes, 6, size) = Head(ms)
             THEN Dropped(SubSeq(bytes, size + 1, Len(bytes)), Tail(ms))
             ELSE <<-1>>

\* C34: after every data-received callback on a handler that is not
\* cancelled, the reassembly buffer holds no complete message: either
\* expectedSize is 0 and fewer than 5 bytes are buffered, or expectedSize is
\* at least 5 and fewer than expectedSize bytes are buffered; and for each
\* message that was complete exactly one messageReceived was emitted and
\* exactly its expectedSize bytes were dropped from the front of the buffer.
C34_BufferHoldsNoCompleteMessage ==
    [][ \A h \in Ops :
          (/\ Event'.op = h /\ Event'.sig = "dataReceived"
           /\ operation[h].alive
           /\ handler[h].m_handlerState # "Cancelled")
          => LET before == handler[h].m_expectedData.container \o Event'.data
                 ed     == handler[h].m_expectedData'
             IN  /\ \/ ed.expectedSize = 0 /\ Len(ed.container) < 5
                    \/ ed.expectedSize >= 5 /\ Len(ed.container) < ed.expectedSize
                 /\ Dropped(before, Messages(signals')) = ed.container ]_vars

\* One DATA frame completed a message that was partly buffered and held a
\* second whole message and the first bytes of a third: two messages were
\* emitted and the bytes of the third are buffered with their size known.
C34_Witness ==
    /\ Event.sig = "dataReceived"
    /\ Len(Event.data) < wirePos
    /\ Len(Messages(signals)) = 2
    /\ handler[1].m_expectedData.expectedSize >= 5
    /\ handler[1].m_expectedData.container # <<>>
    /\ Len(handler[1].m_expectedData.container) < handler[1].m_expectedData.expectedSize

\* C35: in every state between two events the HTTP/2 connection object
\* exists exactly when the state of the channel is Connected, and the slot of
\* the socket's connected signal never runs while a connection object exists
\* (the assertion of createHttp2Connection holds).
C35_ConnectionIffConnected ==
    [][ /\ m_connection' <=> (m_state' = "Connected")
        /\ Event'.sig = "connected" => ~m_connection ]_vars

\* The socket connected a second time: a socket error had torn down the
\* first RPC with the connection, a second RPC made the channel reconnect,
\* and its request went out on the new connection.
C35_Witness ==
    /\ Event.sig = "connected"
    /\ m_connection /\ m_state = "Connected"
    /\ handler[1].life = "deleted"
    /\ operation[1].alive /\ operation[1].isFinished
    /\ m_activeHandlers = <<2>>
    /\ handler[2].headersSent

\* C36: on any stream, once a DATA frame with END_STREAM was submitted no
\* further DATA frame is submitted, and a handler of a unary call or a server
\* stream (end of stream after the first message) submits one DATA frame in
\* its lifetime, whatever the order of writesDone, writeMessage and the
\* attachment of the stream.  Stated per step: a step submits at most one
\* DATA frame for a handler, none after one with END_STREAM, and the frame
\* of such a handler carries END_STREAM.
C36_NoDataAfterEndStream ==
    [][ \A h \in Ops :
          LET frames == Sent(signals', h, {"DATA", "DATA+END_STREAM"})
          IN  frames # <<>>
              => /\ ~handler[h].endSent
                 /\ Len(frames) = 1
                 /\ handler[h].m_endStreamAtFirstData' => frames[1].sig = "DATA+END_STREAM" ]_vars

\* The upload of the only message of a unary call, sent with END_STREAM,
\* has finished, and the handler submitted an empty DATA frame after it.
C36_Witness ==
    \E h \in Ops :
        /\ signals = << Sig(h, "uploadFinished", <<>>, ""),
                        Sig(h, "DATA+END_STREAM", <<>>, "") >>
        /\ handler[h].m_endStreamAtFirstData
        /\ handler[h].m_stream = "HalfClosedLocal"
        /\ handler[h].m_handlerState = "Finished"

\* C37: no DATA frame is submitted on the stream of a handler unless its
\* initial HEADERS frame was sent on that stream before, and HEADERS are sent
\* at most once per handler; this holds for every later writeMessage,
\* writesDone and uploadFinished, also after a sendHEADERS that failed.
C37_DataOnlyAfterHeaders ==
    [][ \A h \in Ops :
          /\ Sent(signals', h, {"DATA", "DATA+END_STREAM"}) # <<>>
                 => handler[h].headersSent'
          /\ Sent(signals', h, {"HEADERS"}) # <<>>
                 => /\ Len(Sent(signals', h, {"HEADERS"})) = 1
                    /\ ~handler[h].headersSent ]_vars

\* sendHEADERS failed for a call, and a later writesDone of its operation
\* made the handler submit the queued message as a DATA frame on the stream
\* that never carried HEADERS.
C37_Witness ==
    \E h \in Ops :
        /\ Event = Sig(h, "writesDone", <<>>, "")
        /\ Sent(signals, h, {"DATA", "DATA+END_STREAM"}) # <<>>
        /\ ~handler[h].headersSent
        /\ handler[h].m_initialHeaders # <<>>
        /\ handler[h].life = "alive"

\* The user cancelled the RPC while its handler had no stream, and holds the
\* operation: cancel() of the handler refused, so the handler is Active and
\* the context emitted nothing; finished(Cancelled) came from the operation.
CancelledUnsent(h) ==
    /\ operation[h].alive
    /\ operation[h].isFinished
    /\ hist[h].ctxFinished = 0
    /\ hist[h].rst = 0
    /\ handler[h].life = "alive"
    /\ handler[h].m_handlerState = "Active"
    /\ ~handler[h].headersSent

\* C38: if the user asks for the cancellation of an RPC while its handler is
\* pending (no stream attached) and keeps the operation, the RPC is not sent
\* when the connection is made later: no stream is created for it, no
\* HEADERS or DATA frame is sent, and no messageReceived is emitted for it.
C38_CancelledPendingIsNotSent ==
    [][ \A h \in Ops :
          CancelledUnsent(h)
          => /\ handler[h].m_stream' = "null"
             /\ Sent(signals', h, {"HEADERS", "DATA", "DATA+END_STREAM", "messageReceived"}) = <<>> ]_vars

\* The socket connected after the user had cancelled a pending RPC: the
\* cancelled request went out with HEADERS and DATA on a new stream.
C38_Witness ==
    \E h \in Ops :
        /\ Event.sig = "connected"
        /\ Len(Sent(signals, h, {"HEADERS"})) = 1
        /\ Sent(signals, h, {"DATA", "DATA+END_STREAM"}) # <<>>
        /\ operation[h].alive /\ operation[h].isFinished
        /\ hist[h].userFinished = 1 /\ hist[h].ctxFinished = 0 /\ hist[h].rst = 0
        /\ handler[h].m_handlerState = "Active"
        /\ handler[h].m_stream = "Open"
        /\ h \in Range(m_activeHandlers)

\* C39: whenever the data path emits finished(Ok) at the end of the stream,
\* the reassembly buffer is empty: a stream that ends in the middle of a
\* length-prefixed message is never reported as Ok with the bytes of the
\* partial message dropped.
C39_OkOnlyWithEmptyBuffer ==
    [][ \A h \in Ops :
          (/\ Event'.op = h /\ Event'.sig = "dataReceived"
           /\ Sig(h, "finished", <<>>, "Ok") \in Range(signals'))
          => handler[h].m_expectedData.container' = <<>> ]_vars

\* The peer ended the stream with a DATA frame that holds the five bytes of
\* a length header and nothing of the message they announce: the RPC
\* finished with Ok and the header bytes are in the buffer.
C39_Witness ==
    \E h \in Ops :
        /\ signals = << Sig(h, "dataReceived", SubSeq(PeerFrame, 1, 5), "END_STREAM"),
                        Sig(h, "finished", <<>>, "Ok"),
                        Sig(h, "QGrpcOperation::finished", <<>>, "Ok") >>
        /\ handler[h].m_expectedData.container = SubSeq(PeerFrame, 1, 5)
        /\ handler[h].m_expectedData.expectedSize = Len(PeerFrame)
        /\ Len(PeerFrame) > 5
        /\ handler[h].m_handlerState = "Finished"

====
